---- MODULE Spec2Model ----
(***************************************************************************)
(* Model of the iVisit identity-document field-extraction pipeline:        *)
(* the ScanIdPage scan handler with its camera hook, the card rectifier's  *)
(* fallback, the ROI/whole-card merge and the text helpers of idParsers.   *)
(***************************************************************************)
EXTENDS Integers, Sequences, FiniteSets, TLC

(***************************************************************************)
(* Strings.  JavaScript strings are modelled as sequences of one-character *)
(* strings; Chars converts a literal, Str converts back.                   *)
(***************************************************************************)
Chars(s) == [i \in 1..Len(s) |-> SubSeq(s, i, i)]

RECURSIVE Str(_)
Str(cs) ==
  IF cs = <<>> THEN ""
  ELSE IF Len(cs) = 1 THEN cs[1]
  ELSE Str(SubSeq(cs, 1, Len(cs) \div 2)) \o Str(SubSeq(cs, Len(cs) \div 2 + 1, Len(cs)))

\* F applied to the value of v; v is evaluated once
Bind(v, F(_)) == CHOOSE r \in {F(x) : x \in {v}} : TRUE

Max(S0) == Bind(S0, LAMBDA S : CHOOSE x \in S : \A y \in S : y <= x)
Min(S0) == Bind(S0, LAMBDA S : CHOOSE x \in S : \A y \in S : x <= y)

LowerAlpha == Chars("abcdefghijklmnopqrstuvwxyz")
UpperAlpha == Chars("ABCDEFGHIJKLMNOPQRSTUVWXYZ")
Lowers == {LowerAlpha[i] : i \in 1..26}
Uppers == {UpperAlpha[i] : i \in 1..26}
Letters == Lowers \cup Uppers
Digits == {"0", "1", "2", "3", "4", "5", "6", "7", "8", "9"}
\* \s of a JavaScript regular expression, as far as OCR text contains it
WS == {" ", "\n", "\t", "\r"}
\* \w of a JavaScript regular expression
WordCh == Letters \cup Digits \cup {"_"}

IndexIn(alpha, c) == CHOOSE i \in 1..26 : alpha[i] = c
ToUpperCh(c) == IF c \in Lowers THEN UpperAlpha[IndexIn(LowerAlpha, c)] ELSE c
ToLowerCh(c) == IF c \in Uppers THEN LowerAlpha[IndexIn(UpperAlpha, c)] ELSE c
toUpperCase(s) == Bind(s, LAMBDA cs : [i \in 1..Len(cs) |-> ToUpperCh(cs[i])])
toLowerCase(s) == Bind(s, LAMBDA cs : [i \in 1..Len(cs) |-> ToLowerCh(cs[i])])

\* String.prototype.trim
trim(s) ==
  Bind(s, LAMBDA cs :
    Bind({i \in 1..Len(cs) : cs[i] \notin WS}, LAMBDA keep :
      IF keep = {} THEN <<>> ELSE SubSeq(cs, Min(keep), Max(keep))))

\* String.prototype.includes
includes(s, word) ==
  Bind(s, LAMBDA cs :
    \E i \in 1..(Len(cs) - Len(word) + 1) : SubSeq(cs, i, i + Len(word) - 1) = word)

\* String.prototype.padStart(2, "0")
padStart2(s) == Bind(s, LAMBDA cs : IF Len(cs) < 2 THEN <<"0">> \o cs ELSE cs)

(***************************************************************************)
(* Regular expressions.  A pattern is a sequence of items; an item is a    *)
(* character class with a greedy quantifier {lo,hi}, or a word boundary.   *)
(* An alternation is a sequence of patterns, tried in order.               *)
(***************************************************************************)
Inf == 1000
Cls(cs, lo, hi) == [k |-> "c", cs |-> cs, lo |-> lo, hi |-> hi]
One(cs) == <<Cls(cs, 1, 1)>>
Rep(cs, lo, hi) == <<Cls(cs, lo, hi)>>
Star(cs) == <<Cls(cs, 0, Inf)>>
Plus(cs) == <<Cls(cs, 1, Inf)>>
Opt(cs) == <<Cls(cs, 0, 1)>>
WordB == <<[k |-> "b", cs |-> {}, lo |-> 0, hi |-> 0]>>
\* a literal word, case-sensitive and case-insensitive
Lit(s) == [i \in 1..Len(s) |-> Cls({SubSeq(s, i, i)}, 1, 1)]
LitI(s) == [i \in 1..Len(s) |->
              Cls({ToLowerCh(SubSeq(s, i, i)), ToUpperCh(SubSeq(s, i, i))}, 1, 1)]

IsWordAt(s, p) == p >= 1 /\ p <= Len(s) /\ s[p] \in WordCh
\* \b holds before position p
BoundaryAt(s, p) == IsWordAt(s, p - 1) # IsWordAt(s, p)

Fail == <<-1>>

\* The preferred (greedy, backtracking) match of items k.. of re at position
\* p of s: the sequence of the positions after each item, or Fail.
RECURSIVE MatchFrom(_, _, _, _)
MatchFrom(re, k, s, p) ==
  IF k > Len(re) THEN <<>>
  ELSE IF re[k].k = "b"
    THEN IF BoundaryAt(s, p)
           THEN Bind(MatchFrom(re, k + 1, s, p), LAMBDA rest :
                  IF rest = Fail THEN Fail ELSE <<p>> \o rest)
           ELSE Fail
    ELSE Bind({<<n, MatchFrom(re, k + 1, s, p + n)>> :
                 n \in {m \in re[k].lo..Min({re[k].hi, Len(s) - p + 1}) :
                          \A j \in p..(p + m - 1) : s[j] \in re[k].cs}},
              LAMBDA tries :
                Bind({t \in tries : t[2] # Fail}, LAMBDA ok :
                  IF ok = {} THEN Fail
                  ELSE Bind(CHOOSE t \in ok : \A u \in ok : u[1] <= t[1], LAMBDA best :
                         <<p + best[1]>> \o best[2])))

\* the end position (exclusive) of the match of pattern re starting at p, or 0
MatchEnd(re, s, p) ==
  Bind(MatchFrom(re, 1, s, p), LAMBDA m :
    IF m = Fail THEN 0 ELSE IF m = <<>> THEN p ELSE m[Len(m)])

\* first alternative of alts that matches at p, or 0
FirstAlt(alts, s, p) ==
  Bind({a \in 1..Len(alts) : MatchFrom(alts[a], 1, s, p) # Fail}, LAMBDA ok :
    IF ok = {} THEN 0 ELSE Min(ok))

\* leftmost start at or after from of a match of any alternative, or 0
FindFrom(alts, s, from) ==
  Bind({p \in from..(Len(s) + 1) : FirstAlt(alts, s, p) # 0}, LAMBDA ok :
    IF ok = {} THEN 0 ELSE Min(ok))
FindStart(alts, s) == FindFrom(alts, s, 1)

\* RegExp.prototype.test
Test(alts, s0) == Bind(s0, LAMBDA s : FindStart(alts, s) # 0)
\* String.prototype.match without the g flag: [start, alternative, ends] or Fail
Match(alts, s0) ==
  Bind(s0, LAMBDA s :
    Bind(FindStart(alts, s), LAMBDA p :
      IF p = 0 THEN Fail
      ELSE Bind(FirstAlt(alts, s, p), LAMBDA a :
             <<p, a>> \o MatchFrom(alts[a], 1, s, p))))
\* the matched text, match[0]
Match0(alts, s0) ==
  Bind(s0, LAMBDA s :
    Bind(Match(alts, s), LAMBDA m :
      IF m = Fail THEN <<>>
      ELSE SubSeq(s, m[1], (IF Len(m) = 2 THEN m[1] ELSE m[Len(m)]) - 1)))

\* String.prototype.replace with the g flag and a constant replacement, for
\* patterns that match no empty string: from p, copy up to the next match,
\* put the replacement and go on after the match
RECURSIVE ReplaceAllFrom(_, _, _, _)
ReplaceAllFrom(alts, s, repl, p) ==
  Bind(FindFrom(alts, s, p), LAMBDA q :
    IF q = 0 \/ q > Len(s) THEN SubSeq(s, p, Len(s))
    ELSE SubSeq(s, p, q - 1) \o repl
         \o ReplaceAllFrom(alts, s, repl, MatchEnd(alts[FirstAlt(alts, s, q)], s, q)))
ReplaceAll(alts, s0, repl) == Bind(s0, LAMBDA s : ReplaceAllFrom(alts, s, repl, 1))

\* the text consumed by item j of the matched pattern (a capture group)
Group(s, m, j) == SubSeq(s, (IF j = 1 THEN m[1] ELSE m[2 + j - 1]), m[2 + j] - 1)

\* text.split(/\r?\n/).map(l => l.trim()).filter(Boolean); trim strips the \r
RECURSIVE SplitNl(_)
SplitNl(cs) ==
  Bind({i \in 1..Len(cs) : cs[i] = "\n"}, LAMBDA nl :
    IF nl = {} THEN <<cs>>
    ELSE <<SubSeq(cs, 1, Min(nl) - 1)>> \o SplitNl(SubSeq(cs, Min(nl) + 1, Len(cs))))
Lines(s) ==
  Bind(s, LAMBDA cs :
    Bind(SplitNl(cs), LAMBDA raw :
      SelectSeq([i \in 1..Len(raw) |-> trim(raw[i])], LAMBDA l : l # <<>>)))

\* Array.prototype.findIndex over lines, 1-based; 0 when absent
FindIndex(lines, alts) ==
  Bind({i \in 1..Len(lines) : Test(alts, lines[i])}, LAMBDA ok :
    IF ok = {} THEN 0 ELSE Min(ok))

\* [a, b, c].filter(Boolean).join(" ")
RECURSIVE JoinSeq(_)
JoinSeq(parts) ==
  IF Len(parts) = 0 THEN <<>>
  ELSE IF Len(parts) = 1 THEN parts[1]
  ELSE parts[1] \o <<" ">> \o JoinSeq(Tail(parts))
JoinSp(parts0) ==
  Bind(parts0, LAMBDA parts : JoinSeq(SelectSeq(parts, LAMBDA q : q # <<>>)))

\* text.replace(/\s+/g, " ")
Squeeze(cs) == ReplaceAll(<<Plus(WS)>>, cs, <<" ">>)

(***************************************************************************)
(* ocrFieldHelpers.ts / idParsers.ts: field normalizers                    *)
(***************************************************************************)
Dash == One({"-"})
\* the pattern of extractNationalIdNumber without its word boundaries
NatIdSpacedUnbounded ==
  Rep(Digits, 4, 4) \o Star(WS) \o Dash \o Star(WS) \o Rep(Digits, 4, 4)
    \o Star(WS) \o Dash \o Star(WS) \o Rep(Digits, 4, 4)
    \o Star(WS) \o Dash \o Star(WS) \o Rep(Digits, 4, 4)

NatIdSpaced ==
  WordB \o Rep(Digits, 4, 4) \o Star(WS) \o Dash \o Star(WS) \o Rep(Digits, 4, 4)
        \o Star(WS) \o Dash \o Star(WS) \o Rep(Digits, 4, 4)
        \o Star(WS) \o Dash \o Star(WS) \o Rep(Digits, 4, 4) \o WordB

extractNationalIdNumber(text) ==
  IF text = <<>> THEN <<>>
  ELSE Bind(trim(Squeeze(ReplaceAll(<<One({"I", "l"})>>,
              ReplaceAll(<<One({"O"})>>, text, <<"0">>), <<"1">>))), LAMBDA cleaned :
         Bind(Match(<<NatIdSpaced>>, cleaned), LAMBDA match :
           IF match = Fail THEN <<>>
           ELSE Bind(SelectSeq(SubSeq(cleaned, match[1], match[Len(match)] - 1),
                               LAMBDA c : c \in Digits), LAMBDA digits :
                  IF Len(digits) # 16 THEN <<>>
                  ELSE SubSeq(digits, 1, 4) \o <<"-">> \o SubSeq(digits, 5, 8)
                       \o <<"-">> \o SubSeq(digits, 9, 12) \o <<"-">>
                       \o SubSeq(digits, 13, Len(digits)))))

monthNames ==
  << "january", "february", "march", "april", "may", "june",
     "july", "august", "september", "october", "november", "december" >>

MonthDayYear(i) ==
  Lit(monthNames[i]) \o Plus(WS) \o Rep(Digits, 1, 2) \o Plus(WS) \o Rep(Digits, 4, 4)
NumericDate ==
  Rep(Digits, 1, 2) \o One({"/", "-"}) \o Rep(Digits, 1, 2) \o One({"/", "-"})
    \o Rep(Digits, 2, 4)

\* (i + 1).toString().padStart(2, "0")
MonthNo(i) == IF i < 10 THEN <<"0", Chars("123456789")[i]>>
              ELSE <<"1", Chars("012")[i - 9]>>

normalizeDate(dateStr) ==
  IF dateStr = <<>> THEN <<>>
  ELSE Bind(toLowerCase(SelectSeq(trim(dateStr), LAMBDA c : c # ",")), LAMBDA cleaned :
    Bind({i \in 1..12 : includes(cleaned, Chars(monthNames[i]))
                        /\ Test(<<MonthDayYear(i)>>, cleaned)}, LAMBDA hit :
      IF hit # {}
        THEN Bind(Min(hit), LAMBDA i :
               Bind(Match(<<MonthDayYear(i)>>, cleaned), LAMBDA m :
                 Group(cleaned, m, Len(monthNames[i]) + 4) \o <<"-">> \o MonthNo(i)
                   \o <<"-">> \o padStart2(Group(cleaned, m, Len(monthNames[i]) + 2))))
        ELSE Bind(Match(<<NumericDate>>, cleaned), LAMBDA numeric :
               IF numeric # Fail
                 THEN Bind(Group(cleaned, numeric, 5), LAMBDA y :
                        (IF Len(y) = 2 THEN <<"2", "0">> \o y ELSE y) \o <<"-">>
                          \o padStart2(Group(cleaned, numeric, 1)) \o <<"-">>
                          \o padStart2(Group(cleaned, numeric, 3)))
                 ELSE <<>>)))

extractDobFromText(text) == IF text = <<>> THEN <<>> ELSE normalizeDate(text)

\* the month names and abbreviations of pickBestDob's pattern, in its order
PickMonths ==
  << "January", "February", "March", "April", "May", "June", "July", "August",
     "September", "October", "November", "December", "Jan", "Feb", "Mar", "Apr",
     "Jun", "Jul", "Aug", "Sep", "Oct", "Nov", "Dec" >>
PickNumeric ==
  WordB \o Rep(Digits, 1, 2) \o One({"/", "-"}) \o Rep(Digits, 1, 2)
        \o One({"/", "-"}) \o Rep(Digits, 2, 4) \o WordB
PickText ==
  [i \in 1..Len(PickMonths) |->
     WordB \o LitI(PickMonths[i]) \o Opt({"."}) \o Plus(WS) \o Rep(Digits, 1, 2)
           \o Opt({","}) \o Plus(WS) \o Rep(Digits, 4, 4) \o WordB]

pickBestDob(text) ==
  Bind(trim(Squeeze(text)), LAMBDA joined :
    Bind(<<Match0(<<PickNumeric>>, joined), Match0(PickText, joined)>>, LAMBDA found :
      Bind(<<normalizeDate(found[1]), normalizeDate(found[2])>>, LAMBDA norm :
        IF found[1] # <<>> /\ norm[1] # <<>> THEN norm[1]
        ELSE IF found[2] # <<>> /\ norm[2] # <<>> THEN norm[2]
        ELSE <<>>)))

LabelWords ==
  << LitI("Apelyido"), LitI("Last") \o Star(WS) \o LitI("Name"),
     LitI("Mga") \o Star(WS) \o LitI("Pangalan"),
     LitI("Given") \o Star(WS) \o LitI("Names"),
     LitI("Gitnang") \o Star(WS) \o LitI("Apelyido"),
     LitI("Middle") \o Star(WS) \o LitI("Name"),
     LitI("Petsa") \o Star(WS) \o LitI("ng") \o Star(WS) \o LitI("Kapanganakan"),
     LitI("Date") \o Star(WS) \o LitI("of") \o Star(WS) \o LitI("Birth") >>
LeakedDates ==
  [i \in 1..12 |-> LitI(monthNames[i]) \o Plus(WS) \o Rep(Digits, 1, 2)
                     \o Plus(WS) \o Rep(Digits, 4, 4)]

cleanRoiName(text) ==
  IF text = <<>> THEN <<>>
  ELSE trim(Squeeze(ReplaceAll(LeakedDates,
              ReplaceAll(LabelWords, trim(Squeeze(text)), <<" ">>), <<" ">>)))

(***************************************************************************)
(* idParsers: whole-card parsers                                           *)
(***************************************************************************)
\* the confidence of a field, in hundredths: high when the field is not
\* empty, low when it is
FieldConfidence(field, high, low) == IF field # <<>> THEN high ELSE low

\* high and low are the confidences of fullName, dob and idNumber
Rec(fullName, dob, idNumber, idType, high, low) ==
  Bind(<<fullName, dob, idNumber>>, LAMBDA f :
    [fullName |-> Str(f[1]), dob |-> Str(f[2]), idNumber |-> Str(f[3]),
     idType |-> idType,
     confidence |-> [fullName |-> FieldConfidence(f[1], high[1], low[1]),
                     dob |-> FieldConfidence(f[2], high[2], low[2]),
                     idNumber |-> FieldConfidence(f[3], high[3], low[3])]])

NatIdExact ==
  WordB \o Rep(Digits, 4, 4) \o Dash \o Rep(Digits, 4, 4) \o Dash
        \o Rep(Digits, 4, 4) \o Dash \o Rep(Digits, 4, 4) \o WordB
NextLineIsLabel ==
  << LitI("Apelyido"), LitI("Given"), LitI("Petsa"), LitI("Date"),
     LitI("Kapanganakan"), LitI("Birth"), LitI("ID"), LitI("Numero") >>
LastNameLabel == << LitI("Apelyido"), LitI("Last") \o Star(WS) \o LitI("Name") >>
GivenNamesLabel ==
  << LitI("Mga") \o Star(WS) \o LitI("Pangalan"),
     LitI("Given") \o Star(WS) \o LitI("Names") >>
MiddleNameLabel ==
  << LitI("Gitnang") \o Star(WS) \o LitI("Apelyido"),
     LitI("Middle") \o Star(WS) \o LitI("Name") >>
NatDob ==
  [i \in 1..12 |-> WordB \o LitI(monthNames[i]) \o Plus(WS) \o Rep(Digits, 1, 2)
                     \o Star(WS) \o Rep(Digits, 4, 4) \o WordB]

getLineBelow(lines, keywordRegex) ==
  Bind(FindIndex(lines, keywordRegex), LAMBDA idx :
    IF idx # 0 /\ idx + 1 <= Len(lines)
         /\ ~Test(NextLineIsLabel, trim(lines[idx + 1]))
      THEN trim(lines[idx + 1])
      ELSE <<>>)

\* lines.find(l => /^[A-Z\s]{3,}$/.test(l)) || ""
FirstCapsLine(lines) ==
  Bind({i \in 1..Len(lines) :
          Len(lines[i]) >= 3
          /\ \A j \in 1..Len(lines[i]) : lines[i][j] \in Uppers \cup WS}, LAMBDA ok :
    IF ok = {} THEN <<>> ELSE lines[Min(ok)])

parseNationalId(text) ==
  Bind(<<Lines(text), Squeeze(text)>>, LAMBDA t :
    Bind(getLineBelow(t[1], LastNameLabel), LAMBDA below :
      Rec(trim(JoinSp(<<getLineBelow(t[1], GivenNamesLabel),
                        getLineBelow(t[1], MiddleNameLabel),
                        (IF below # <<>> THEN below ELSE FirstCapsLine(t[1]))>>)),
          normalizeDate(Match0(NatDob, t[2])),
          Match0(<<NatIdExact>>, t[2]),
          "National ID", <<95, 90, 100>>, <<40, 40, 30>>)))

CrnPat ==
  LitI("CRN") \o Opt({"-"}) \o Star(WS) \o Rep(Digits, 4, 4) \o Opt({"-"})
    \o Star(WS) \o Rep(Digits, 7, 7) \o Opt({"-"}) \o Star(WS) \o Rep(Digits, 1, 1)
UmidDobPat ==
  Rep(Digits, 4, 4) \o One({"/", "-"}) \o Rep(Digits, 2, 2) \o One({"/", "-"})
    \o Rep(Digits, 2, 2)

\* lines.slice(start, end).filter(l => l && !/middle\s+name/i.test(l)).join(" ")
RECURSIVE JoinLines(_, _, _)
JoinLines(lines, from, to) ==
  IF from > to THEN <<>>
  ELSE JoinSp(<< (IF Test(<<LitI("middle") \o Plus(WS) \o LitI("name")>>, lines[from])
                   THEN <<>> ELSE trim(lines[from])),
                 JoinLines(lines, from + 1, to) >>)

UmidIdNumber(joined) ==
  Bind(Match(<<CrnPat>>, joined), LAMBDA crn :
    IF crn = Fail THEN <<>>
    ELSE Chars("CRN-") \o Group(joined, crn, 6) \o <<"-">>
         \o Group(joined, crn, 9) \o <<"-">> \o Group(joined, crn, 12))

UmidFullName(lines) ==
  Bind(<<FindIndex(lines, <<LitI("surname")>>),
         FindIndex(lines, <<LitI("given") \o Plus(WS) \o LitI("name")>>),
         FindIndex(lines, <<LitI("middle") \o Plus(WS) \o LitI("name")>>)>>, LAMBDA idx :
    trim(Squeeze(JoinSp(
      << (IF idx[2] # 0
            THEN trim(Squeeze(JoinLines(lines, idx[2] + 1,
                   (IF idx[3] # 0 THEN idx[3] - 1 ELSE Len(lines)))))
            ELSE <<>>),
         (IF idx[3] # 0 /\ idx[3] + 1 <= Len(lines)
            THEN trim(lines[idx[3] + 1]) ELSE <<>>),
         (IF idx[1] # 0 /\ idx[1] + 1 <= Len(lines)
            THEN trim(lines[idx[1] + 1]) ELSE <<>>) >>))))

UmidDob(lines) ==
  Bind(FindIndex(lines, <<LitI("date") \o Plus(WS) \o LitI("of") \o Plus(WS)
                            \o LitI("birth")>>), LAMBDA dobIdx :
    IF dobIdx # 0 /\ dobIdx + 1 <= Len(lines)
      THEN Bind(trim(lines[dobIdx + 1]), LAMBDA dobRaw :
             Bind(Match(<<UmidDobPat>>, dobRaw), LAMBDA m :
               IF m = Fail THEN <<>>
               ELSE Group(dobRaw, m, 1) \o <<"-">> \o Group(dobRaw, m, 3) \o <<"-">>
                    \o Group(dobRaw, m, 5)))
      ELSE <<>>)

parseUMID(text) ==
  Bind(<<Lines(text), trim(Squeeze(text))>>, LAMBDA t :
    Rec(UmidFullName(t[1]), UmidDob(t[1]), UmidIdNumber(t[2]), "UMID",
        <<80, 85, 95>>, <<30, 30, 40>>))

(***************************************************************************)
(* idParsers: detectIdType.  Confidence is in hundredths.                  *)
(***************************************************************************)
Punct == {"-", "/", ".", ",", ":", "'", "!", "@", "#", "_"}
\* . of a regular expression: any character but a line terminator
Dot == Letters \cup Digits \cup Punct \cup {" ", "\t"}
W(s) == LitI(s) \o Star(WS)

hasNationalIdNumber(text) ==
  Test(<<Rep(Digits, 4, 4) \o Dash \o Rep(Digits, 4, 4) \o Dash \o Rep(Digits, 4, 4)
           \o Dash \o Rep(Digits, 4, 4)>>, text)
hasPhilSys(text) ==
  Test(<<LitI("PHILSYS"), W("PHILIPPINE") \o W("NATIONAL") \o LitI("ID")>>, text)
hasRepublika(text) == Test(<<W("REPUBLIKA") \o W("NG") \o LitI("PILIPINAS")>>, text)
\* the CRN pattern without the separators allowed after "CRN"
hasCRNNoSeparator(text) ==
  Test(<<LitI("CRN") \o Rep(Digits, 4, 4) \o Opt({"-"} \cup WS) \o Rep(Digits, 7, 7)
           \o Opt({"-"} \cup WS) \o Rep(Digits, 1, 1)>>, text)

hasCRN(text) ==
  Test(<<LitI("CRN") \o Star({":", "-"} \cup WS) \o Rep(Digits, 4, 4)
           \o Opt({"-"} \cup WS) \o Rep(Digits, 7, 7) \o Opt({"-"} \cup WS)
           \o Rep(Digits, 1, 1)>>, text)
hasUMIDExact(text) == Test(<<WordB \o LitI("UMID") \o WordB>>, text)
hasRepublicPhilippines(text) ==
  \/ Test(<<W("REPUBLIC") \o W("OF") \o W("THE") \o LitI("PHILIPPINES")>>, text)
  \/ /\ includes(toUpperCase(text), Chars("REPUBLIC"))
     /\ includes(toUpperCase(text), Chars("PHILIPPINES"))
hasMultiPurpose(text) ==
  \/ Test(<<LitI("MULTI") \o Opt({"-"} \cup WS) \o LitI("PURPOSE")>>, text)
  \/ /\ includes(toUpperCase(text), Chars("MULTI"))
     /\ includes(toUpperCase(text), Chars("PURPOSE"))
hasUnified(text) == Test(<<LitI("UNIFIED")>>, text)
hasLTOText(text) ==
  \/ Test(<<W("LAND") \o W("TRANSPORTATION") \o LitI("OFFICE")>>, text)
  \/ Test(<<WordB \o Lit("LTO") \o WordB>>, toUpperCase(text))
  \/ Test(<<LitI("DRIVER") \o Opt({"'"}) \o Opt({"s", "S"}) \o Star(WS)
              \o LitI("LICENSE")>>, text)
  \/ Test(<<W("LICENSE") \o LitI("NO")>>, text)
\* the licence number pattern with exactly three leading digits
hasLicenseNumberThreeDigits(text) ==
  Test(<<Opt(Uppers) \o Rep(Digits, 3, 3) \o Dash \o Rep(Digits, 2, 2) \o Dash
           \o Rep(Digits, 6, 6)>>, text)

hasLicenseNumber(text) ==
  Test(<<Opt(Uppers) \o Rep(Digits, 2, 3) \o Dash \o Rep(Digits, 2, 2) \o Dash
           \o Rep(Digits, 6, 6)>>, text)
hasPhilHealth(text) ==
  Test(<<LitI("PHILHEALTH"), W("PHILIPPINE") \o W("HEALTH") \o LitI("INSURANCE")>>, text)
hasPhilHealthNumber(text) ==
  Test(<<Rep(Digits, 2, 2) \o Dash \o Rep(Digits, 9, 9) \o Dash \o Rep(Digits, 1, 1)>>,
       text)
hasSSSText(text) == Test(<<W("SOCIAL") \o W("SECURITY") \o LitI("SYSTEM")>>, text)
hasSSSAbbrev(text) ==
  /\ Test(<<WordB \o Lit("SSS") \o WordB>>, toUpperCase(text))
  /\ ~Test(<<LitI("PHILSYS"), LitI("UMID"),
             LitI("MULTI") \o Opt(Dot) \o LitI("PURPOSE")>>, text)
hasSSSNumber(text) ==
  Test(<<Rep(Digits, 2, 2) \o Dash \o Rep(Digits, 7, 7) \o Dash \o Rep(Digits, 1, 1)>>,
       text)
hasCityText(text) ==
  Test(<<W("QUEZON") \o LitI("CITY"), W("CITY") \o W("OF") \o LitI("MANILA"),
         W("CITY") \o LitI("ID"), W("BARANGAY") \o LitI("ID")>>, text)
hasSchoolText(text) ==
  Test(<<LitI("UNIVERSITY"), LitI("COLLEGE"), W("STUDENT") \o LitI("ID"),
         W("SCHOOL") \o LitI("ID")>>, text)

Det(idType, confidence, matchedPatterns) ==
  [idType |-> idType, confidence |-> confidence,
   matchedPatterns |-> SelectSeq(matchedPatterns, LAMBDA m : m # "")]
When(c, s) == IF c THEN s ELSE ""

detectIdType(text0) ==
  Bind(text0, LAMBDA text :
  IF text = <<>> THEN Det("Other", 0, <<>>)
  ELSE IF hasNationalIdNumber(text)
    THEN Det("National ID", 95,
             <<"ID: XXXX-XXXX-XXXX-XXXX",
               When(hasPhilSys(text) \/ hasRepublika(text), "PhilSys / National ID")>>)
  ELSE IF \/ hasCRN(text)
          \/ hasUMIDExact(text)
          \/ (hasRepublicPhilippines(text) /\ (hasMultiPurpose(text) \/ hasUnified(text)))
    THEN Det("UMID", 95,
             <<When(hasCRN(text), "CRN-XXXX-XXXXXXX-X"),
               When(hasUMIDExact(text), "UMID text found"),
               When(hasRepublicPhilippines(text), "Republic of the Philippines"),
               When(hasMultiPurpose(text) \/ hasUnified(text), "Multi-Purpose ID text")>>)
  ELSE IF hasLTOText(text) \/ hasLicenseNumber(text)
    THEN Det("Driver's License", 90,
             <<When(hasLTOText(text), "LTO / Driver's License"),
               When(hasLicenseNumber(text), "ID: N##-##-######")>>)
  ELSE IF hasPhilHealth(text) \/ hasPhilHealthNumber(text)
    THEN Det("PhilHealth ID", 90,
             <<When(hasPhilHealth(text), "PhilHealth"),
               When(hasPhilHealthNumber(text), "ID: ##-#########-#")>>)
  ELSE IF hasSSSText(text) \/ (hasSSSAbbrev(text) /\ hasSSSNumber(text))
    THEN Det("SSS ID", 85,
             <<When(hasSSSText(text), "Social Security System"),
               When(hasSSSNumber(text), "ID: ##-#######-#")>>)
  ELSE IF hasCityText(text) THEN Det("City ID", 80, <<"City/Barangay ID">>)
  ELSE IF hasSchoolText(text) THEN Det("School ID", 70, <<"School/University">>)
  ELSE Det("Other", 30, <<"No patterns matched">>))

\* parseTextByIdType, for the ID types whose parsers are modelled
(***************************************************************************)
(* ocrFieldHelpers.ts: parseGeneric, parseCityId and the confidences.      *)
(* A confidence is in hundredths.                                          *)
(***************************************************************************)
\* s.split(/\s+/): the pieces between the runs of blanks
RECURSIVE SplitWs(_)
SplitWs(cs) ==
  Bind(FindStart(<<Plus(WS)>>, cs), LAMBDA p :
    IF p = 0 \/ p > Len(cs) THEN <<cs>>
    ELSE <<SubSeq(cs, 1, p - 1)>>
         \o SplitWs(SubSeq(cs, MatchEnd(Plus(WS), cs, p), Len(cs))))

\* the number of characters of cs that are in the class
CountIn(cs, class) == Cardinality({i \in 1..Len(cs) : cs[i] \in class})

\* candidates.sort((a, b) => b.length - a.length)[0]: the first of the
\* longest candidates (the sort is stable)
Longest(candidates) ==
  candidates[Min({i \in 1..Len(candidates) :
                    \A j \in 1..Len(candidates) : Len(candidates[j]) <= Len(candidates[i])})]

NameLabels ==
  <<LitI("name") \o WordB, LitI("surname") \o WordB, LitI("given") \o WordB,
    LitI("middle") \o WordB, LitI("birth") \o WordB, LitI("date") \o WordB,
    LitI("sex") \o WordB, LitI("gender") \o WordB>>

isLikelyNameLine(line) ==
  Bind(trim(line), LAMBDA trimmed :
    /\ Len(trimmed) >= 5
    /\ Len(SplitWs(trimmed)) >= 2
    /\ CountIn(trimmed, Letters \cup WS) * 10 >= 6 * Max({Len(trimmed), 1})
    /\ ~Test(NameLabels, trimmed))

pickBestNameLine(lines) ==
  Bind(SelectSeq(lines, isLikelyNameLine), LAMBDA candidates :
    IF Len(candidates) = 0 THEN <<>> ELSE trim(Longest(candidates)))

\* best.replace(/[.,]+$/, "")
DropTrailingPunct(best) ==
  Bind({i \in 1..Len(best) : best[i] \notin {".", ","}}, LAMBDA keep :
    IF keep = {} THEN <<>> ELSE SubSeq(best, 1, Max(keep)))

IsIdToken(t) ==
  /\ Len(t) >= 6
  /\ \E i \in 1..Len(t) : t[i] \in Digits
  /\ CountIn(t, Letters \cup Digits \cup {"-"}) * 10 >= 7 * Len(t)

pickBestIdToken(text) ==
  Bind(SelectSeq(SplitWs(text), IsIdToken), LAMBDA candidates :
    IF Len(candidates) = 0 THEN <<>> ELSE DropTrailingPunct(Longest(candidates)))

parseGeneric(text) ==
  Bind(<<Lines(text), trim(Squeeze(text))>>, LAMBDA t :
    Rec(pickBestNameLine(t[1]), pickBestDob(t[2]), pickBestIdToken(t[2]), "Unknown",
        <<70, 60, 60>>, <<30, 20, 20>>))

AddressLabelColon == <<WordB \o LitI("address") \o Star(WS) \o One({":"})>>
NotAddressWords ==
  <<LitI("name"), LitI("birth"), LitI("sex"), LitI("date"), LitI("id"),
    LitI("number"), LitI("license"), LitI("expiry")>>
AddressWords ==
  <<LitI("brgy"), LitI("barangay"), LitI("street"), LitI("st."), LitI("ave"),
    LitI("avenue"), LitI("city"), LitI("metro"), LitI("manila"), LitI("quezon")>>

\* /^address/i.test(l) || /\baddress\s*:/i.test(l)
IsAddressLabel(l) ==
  \/ Len(l) >= 7 /\ toLowerCase(SubSeq(l, 1, 7)) = Chars("address")
  \/ Test(AddressLabelColon, l)

\* addrLines.join(', ')
RECURSIVE JoinComma(_)
JoinComma(parts) ==
  IF Len(parts) = 0 THEN <<>>
  ELSE IF Len(parts) = 1 THEN parts[1]
  ELSE parts[1] \o <<",", " ">> \o JoinComma(Tail(parts))

extractAddress(text) ==
  Bind(Lines(text), LAMBDA lines :
    Bind({i \in 1..Len(lines) : IsAddressLabel(lines[i])}, LAMBDA labels :
      Bind(IF labels = {} THEN <<>>
           ELSE SelectSeq(SubSeq(lines, Min(labels) + 1, Min({Min(labels) + 3, Len(lines)})),
                          LAMBDA l : ~Test(NotAddressWords, l)),
           LAMBDA addrLines :
             IF Len(addrLines) > 0 THEN trim(Squeeze(JoinComma(addrLines)))
             ELSE Bind({i \in 1..Len(lines) : Test(AddressWords, lines[i])}, LAMBDA found :
                    IF found = {} THEN <<>> ELSE lines[Min(found)]))))

QcNumber == <<LitI("QC") \o Opt({"-"}) \o Star(WS) \o Rep(Digits, 6, Inf)>>
LongNumber == <<WordB \o Rep(Digits, 8, Inf) \o WordB>>
CommaName ==
  <<One(Uppers) \o Plus(Uppers \cup {"'"}) \o One({","}) \o Star(WS)
      \o One(Uppers) \o Plus(Uppers \cup {"'", "."} \cup WS)>>

CityIdNumber(joined) ==
  IF Test(QcNumber, joined)
    THEN SelectSeq(Match0(QcNumber, joined), LAMBDA c : c \notin WS)
    ELSE Match0(LongNumber, joined)

CityFullName(lines, joined) ==
  Bind(Match(CommaName, joined), LAMBDA nameMatch :
    IF nameMatch # Fail
      THEN trim(Group(joined, nameMatch, 5) \o Group(joined, nameMatch, 6))
           \o <<" ">> \o trim(Group(joined, nameMatch, 1) \o Group(joined, nameMatch, 2))
      ELSE pickBestNameLine(lines))

parseCityId(text) ==
  Bind(<<Lines(text), trim(Squeeze(text))>>, LAMBDA t :
    Bind(<<CityFullName(t[1], t[2]), pickBestDob(t[2]), CityIdNumber(t[2]),
           extractAddress(text)>>, LAMBDA f :
      [fullName |-> Str(trim(Squeeze(f[1]))), dob |-> Str(f[2]), idNumber |-> Str(f[3]),
       idType |-> "City ID", address |-> Str(f[4]),
       confidence |-> [fullName |-> FieldConfidence(f[1], 75, 30),
                       dob |-> FieldConfidence(f[2], 70, 30),
                       idNumber |-> FieldConfidence(f[3], 80, 30),
                       address |-> FieldConfidence(f[4], 70, 20)]]))

\* parseTextByIdType; parsePhilHealthId, parseDriversLicense and parseSSSId
\* are not modelled, and no call here is for one of their types
UnmodelledTypes == {"PhilHealth ID", "Driver's License", "SSS ID"}

parseTextByIdType(text, idType) ==
  CASE idType = "National ID" -> parseNationalId(text)
    [] idType = "UMID" -> parseUMID(text)
    [] idType \in {"City ID", "QC ID", "Other"} -> parseCityId(text)
    [] idType \notin {"National ID", "UMID", "City ID", "QC ID", "Other"}
                      \cup UnmodelledTypes -> parseGeneric(text)

(***************************************************************************)
(* cardTemplates.ts and the ROI helpers                                    *)
(***************************************************************************)
RoiKeys == {"fullName", "dob", "idNumber"}
TemplateTypes == {"National ID", "PhilHealth ID", "UMID"}
\* getRoisForIdType: the keys of the template's ROIs, none without a template
getRoisForIdType(idType) == IF idType \in TemplateTypes THEN RoiKeys ELSE {}

(***************************************************************************)
(* cardCropper.ts: cropIdCardFromDataUrl.  OpenCV's findings are inputs:   *)
(* the contours as (rows of the approximated polygon, area) and whether    *)
(* any OpenCV or canvas call throws.                                       *)
(***************************************************************************)
MinCardArea == 3000
NoImage == ""
Rectified(dataUrl) == "rect"

\* the loop over the contours: [found, maxArea] of the largest quadrilateral
RECURSIVE LargestQuad(_, _, _)
LargestQuad(contours, i, acc) ==
  IF i > Len(contours) THEN acc
  ELSE IF contours[i].rows = 4 /\ contours[i].area > acc.maxArea
    THEN LargestQuad(contours, i + 1, [found |-> TRUE, maxArea |-> contours[i].area])
    ELSE LargestQuad(contours, i + 1, acc)

cropIdCardFromDataUrl(dataUrl, cv) ==
  LET card == LargestQuad(cv.contours, 1, [found |-> FALSE, maxArea |-> 0])
  IN IF cv.throws
       THEN [success |-> FALSE, dataUrl |-> NoImage,
             reason |-> "OpenCV error, using original image"]
     ELSE IF ~card.found \/ card.maxArea < MinCardArea
       THEN [success |-> FALSE, dataUrl |-> NoImage,
             reason |-> "Card contour not found - using original image"]
     ELSE [success |-> TRUE, dataUrl |-> Rectified(dataUrl), reason |-> ""]


(***************************************************************************)
(* Bounds and inputs                                                       *)
(***************************************************************************)
MaxRequestId == 6
MaxContours == 2

\* the ID types the operator selects in this model
ScanTypes == {"National ID", "UMID"}
\* contours OpenCV may report: polygon vertex count and area
ContourKinds == {[rows |-> r, area |-> a] : r \in {3, 4}, a \in {2999, 3000}}
RECURSIVE SeqsUpTo(_, _)
SeqsUpTo(S, n) ==
  IF n = 0 THEN {<<>>}
  ELSE SeqsUpTo(S, n - 1)
       \cup {Append(q, e) : q \in {r \in SeqsUpTo(S, n - 1) : Len(r) = n - 1}, e \in S}
CvInputs ==
  {[throws |-> t, contours |-> c] : t \in BOOLEAN, c \in SeqsUpTo(ContourKinds, MaxContours)}
\* texts the OCR helper may return for the three field crops and the whole card
NameTexts == {"", "SANT0S, MARIA", "Last Name", "JUAN"}
DobTexts == {"", "January 3, 1999"}
IdTexts == {"", "ID NO. 1234-5678-9O12-3456", "1234-5678-9012-345"}
WholeTexts ==
  {"", "PHILSYS\nApelyido\nCRUZ\nMga Pangalan\nJUAN\nMarch 5 1990\n1111-2222-3333-4444",
   "CRN-0111-1234567-8\nDATE OF BIRTH\n1985/03/15\nSURNAME\nSANTOS\nGIVEN NAME\nMARIA"}
ManualInputs ==
  {[fullName |-> "ANA REYES", dob |-> "2000-01-01", idNumber |-> "A-1"]}
\* pieces of card text; the OCR test page is fed every combination of them
Fragments ==
  <<"1234-5678-9012-3456", "CRN-0111-1234567-8",
    "REPUBLIC OF THE PHILIPPINES\nUnified Multi-Purpose ID", "N01-12-123456",
    "PhilHealth", "SSS", "04-1234567-8", "Social Security System", "QUEZON CITY",
    "UNIVERSITY">>
RECURSIVE TextOf(_, _)
TextOf(S, i) ==
  IF i > Len(Fragments) THEN ""
  ELSE IF i \in S THEN Fragments[i] \o "\n" \o TextOf(S, i + 1)
  ELSE TextOf(S, i + 1)
OcrTestTexts == {TextOf(S, 1) : S \in SUBSET (1..Len(Fragments))}

\* what the helpers make of each input text, computed once per text
CleanRoiNameOf == [t \in NameTexts |-> Str(cleanRoiName(Chars(t)))]
ExtractDobOf == [t \in DobTexts |-> Str(extractDobFromText(Chars(t)))]
ExtractNationalIdOf == [t \in IdTexts |-> Str(extractNationalIdNumber(Chars(t)))]
TrimOf == [t \in IdTexts |-> Str(trim(Chars(t)))]
ParseOf ==
  [t \in WholeTexts, idType \in ScanTypes |-> parseTextByIdType(Chars(t), idType)]
DetectOf == [t \in OcrTestTexts |-> detectIdType(Chars(t))]

(***************************************************************************)
(* State                                                                   *)
(***************************************************************************)
VARIABLES
  isCameraModalOpen, selectedIdType, extractedInfo, manualData, croppedPreview,
  scanPreview, isFrozen, scanning, toast,  \* ScanIdPage useState
  cam,                                     \* useCamera of the ID camera
  pc, scan, hung,                          \* handleScanClick in flight
  outcome, cancelled, last,                \* history of the scan
  discarded,                               \* history of the Discard button
  ocrTest,                                 \* OcrTestPage useState
  call,                                    \* the last call of a helper function
  helper                                   \* the OCR helper's multipass request

page == <<isCameraModalOpen, selectedIdType, extractedInfo, manualData,
          croppedPreview, scanPreview, isFrozen, scanning, toast>>
hist == <<outcome, cancelled, last, discarded>>
vars == <<page, cam, pc, scan, hung, hist, ocrTest, call, helper>>

NoInfo == <<>>
EmptyManual == [fullName |-> "", dob |-> "", idNumber |-> ""]
NoToast == [msg |-> "", variant |-> ""]
Toast(msg, variant) == [msg |-> msg, variant |-> variant]
NoDataMsg ==
  "OCR couldn't extract details. Adjust lighting/position, retry, or use Manual Entry."
OcrFailedMsg == "OCR failed - check helper connection and try again."
NoFrameMsg == "Unable to capture image from camera."
NoCv == [throws |-> FALSE, contours |-> <<>>]

\* the locals of the handleScanClick call in flight (or of the last one)
NoScan ==
  [selType |-> "", dataUrl |-> NoImage, cv |-> NoCv, success |-> FALSE,
   finalDataUrl |-> NoImage, fieldImages |-> {}, roiFullName |-> "", roiDob |-> "",
   roiIdNumber |-> "", arg |-> NoImage]

\* what the last merge of handleScanClick was given and what it built
NoMerge ==
  [selType |-> "", roiFullName |-> "", roiDob |-> "", roiIdNumber |-> "",
   fromFull |-> NoInfo, extended |-> NoInfo]

(***************************************************************************)
(* useCamera.tsx                                                           *)
(***************************************************************************)
NoStream == <<>>
\* requests are the calls of getUserMedia not yet settled; live are the
\* streams obtained whose tracks are not stopped
CamInit ==
  [startRequestId |-> 0, mediaStreamRef |-> NoStream, isActive |-> FALSE,
   error |-> FALSE, requests |-> {}, live |-> {}]

\* mediaStreamRef.current.getTracks().forEach((t) => t.stop())
StopTracks(live, mediaStream) == live \ {mediaStream[i] : i \in 1..Len(mediaStream)}

\* startCamera up to its await of getUserMedia
startCamera(c) ==
  [c EXCEPT !.error = FALSE,
            !.startRequestId = @ + 1,
            !.live = StopTracks(@, c.mediaStreamRef),
            !.mediaStreamRef = NoStream,
            !.requests = @ \cup {c.startRequestId + 1}]

stopCamera(c) ==
  [c EXCEPT !.startRequestId = @ + 1,
            !.live = StopTracks(@, c.mediaStreamRef),
            !.mediaStreamRef = NoStream,
            !.isActive = FALSE]

\* startCamera after its await without the test of the request ID
getUserMediaResolvedNoStaleTest(c, r) ==
  [c EXCEPT !.requests = @ \ {r}, !.live = @ \cup {r},
            !.mediaStreamRef = <<r>>, !.isActive = TRUE]

\* startCamera after its await, getUserMedia having resolved for request r
getUserMediaResolved(c, r) ==
  IF r # c.startRequestId
    THEN [c EXCEPT !.requests = @ \ {r}, !.live = StopTracks(@ \cup {r}, <<r>>)]
    ELSE [c EXCEPT !.requests = @ \ {r}, !.live = @ \cup {r},
                   !.mediaStreamRef = <<r>>, !.isActive = TRUE]

\* the catch of startCamera, getUserMedia having rejected for request r
getUserMediaRejected(c, r) ==
  IF r = c.startRequestId
    THEN [c EXCEPT !.requests = @ \ {r}, !.error = TRUE, !.isActive = FALSE]
    ELSE [c EXCEPT !.requests = @ \ {r}]

GumResolve(r) ==
  /\ r \in cam.requests
  /\ cam' = getUserMediaResolved(cam, r)
  /\ UNCHANGED <<page, pc, scan, hung, hist, ocrTest, call, helper>>

GumReject(r) ==
  /\ r \in cam.requests
  /\ cam' = getUserMediaRejected(cam, r)
  /\ UNCHANGED <<page, pc, scan, hung, hist, ocrTest, call, helper>>

\* captureFrame: null without a mounted <video> or a 2D context
VideoMounted ==
  isCameraModalOpen /\ ~cam.error /\ ~(isFrozen /\ scanPreview # NoImage)
captureFrame(ctxOk) == IF VideoMounted /\ ctxOk THEN "raw" ELSE NoImage

\* room left in the request counter for a step that advances it by n and
\* leaves the modal open or closed, keeping what a scan in flight then needs
\* to finish (its last step stops or starts the camera, and closes the modal)
Room(n, inFlight, open) ==
  cam.startRequestId + n + (IF ~inFlight THEN 0 ELSE IF open THEN 2 ELSE 1)
    <= MaxRequestId

(***************************************************************************)
(* Calls of the helper functions on their own: the function, its argument  *)
(* and what it returned.                                                   *)
(***************************************************************************)
NoCall == [fn |-> "", arg |-> "", result |-> ""]
Called(fn, arg, result) == [fn |-> fn, arg |-> arg, result |-> result]

\* texts of an ID-number crop: an optional label, four groups of digits with
\* O read for 0 and I or l for 1, a group too long or too short, and dashes
\* with or without spaces around them
NatIdPrefixes == {"", "ID NO. "}
NatIdFirstGroups == {"1234", "I234", "l234", "12345"}
NatIdThirdGroups == {"9012", "9O12"}
NatIdLastGroups == {"3456", "345", "34567"}
NatIdSeparators == {"-", " - ", "- "}
NatIdText(p, g1, g3, g4, sep) == p \o g1 \o sep \o "5678" \o sep \o g3 \o sep \o g4
NatIdTexts ==
  {NatIdText(p, g1, g3, g4, sep) :
     p \in NatIdPrefixes, g1 \in NatIdFirstGroups, g3 \in NatIdThirdGroups,
     g4 \in NatIdLastGroups, sep \in NatIdSeparators}
    \cup {"", "1234-5678-9012-3456", "1234567890123456", "no number"}

\* date texts: every month by name and by abbreviation, with and without the
\* period and the comma, and numeric dates month-first and year-first
MonthTitles ==
  << "January", "February", "March", "April", "May", "June",
     "July", "August", "September", "October", "November", "December" >>
MonthAbbrevs ==
  << "Jan", "Feb", "Mar", "Apr", "May", "Jun", "Jul", "Aug", "Sep", "Oct", "Nov", "Dec" >>
DayYearTails == {" 3, 1999", " 3 1999", " 12, 2001"}
NumericDates ==
  {"03/01/1999", "3-1-1999", "3-1-99", "12/31/05", "3-1-199", "03/01/199",
   "1999-01-03", "1985/03/15"}
DateTexts ==
  {MonthTitles[i] \o tail : i \in 1..12, tail \in DayYearTails}
    \cup {MonthAbbrevs[i] \o dot \o tail : i \in 1..12, dot \in {"", "."},
                                           tail \in DayYearTails}
    \cup NumericDates
    \cup {"", "1999", "Date of Birth"}

(***************************************************************************)
(* OcrController.java: the multipass endpoint of the OCR helper            *)
(***************************************************************************)
\* a null String reference
Null == <<"null">>
\* the variants in the order extractTextMultipass runs them
Variants == <<"standard", "highContrast", "inverted", "binarized", "adaptiveLocal">>
OcrResult(text, method, score) == [text |-> text, method |-> method, score |-> score]

\* Character.isLetterOrDigit and Character.isWhitespace on the characters used
isLetterOrDigit(c) == c \in Letters \cup Digits
isWhitespace(c) == c \in WS

\* the score with a noise character counted once, not twice
scoreResultSinglePenalty(text) ==
  IF text = Null \/ text = <<>> THEN 0
  ELSE Cardinality({i \in 1..Len(text) : isLetterOrDigit(text[i])})
         - Cardinality({i \in 1..Len(text) :
                          /\ ~isLetterOrDigit(text[i]) /\ ~isWhitespace(text[i])
                          /\ text[i] # "-" /\ text[i] # "/"})

\* the cast of the long difference to int changes nothing for a text of
\* fewer than 2^30 characters
scoreResult(text) ==
  IF text = Null \/ text = <<>> THEN 0
  ELSE LET alphaNum == Cardinality({i \in 1..Len(text) : isLetterOrDigit(text[i])})
           garbage == Cardinality({i \in 1..Len(text) :
                                     /\ ~isLetterOrDigit(text[i])
                                     /\ ~isWhitespace(text[i])
                                     /\ text[i] # "-" /\ text[i] # "/"})
       IN alphaNum - garbage * 2

\* results.stream().max(comparingInt(r -> r.score)): the reduction keeps the
\* earlier result unless the later one compares greater
RECURSIVE MaxByScore(_, _, _)
MaxByScore(results, i, best) ==
  IF i > Len(results) THEN best
  ELSE MaxByScore(results, i + 1,
                  IF best.score >= results[i].score THEN best ELSE results[i])
\* the selection that keeps the latest of the results with the greatest score
selectBestLatest(results) ==
  LET top == {i \in 1..Len(results) : \A j \in 1..Len(results) :
                                         results[j].score <= results[i].score}
  IN results[CHOOSE i \in top : \A j \in top : j <= i]
selectBest(results) == MaxByScore(results, 2, results[1])

\* what tesseract.doOCR gives for a variant: a text, or an exception
EngineFails == "<TesseractException>"
PassTexts == {"", "ABCD1234", "A!@#1", "AB 12", "ABCD"}
PassOutcomes == PassTexts \cup {EngineFails}

\* runOcr marking a failed pass with score -1
runOcrMinusOne(doOCR, method) ==
  IF doOCR = EngineFails THEN OcrResult("", method, -1)
  ELSE OcrResult(doOCR, method, scoreResult(Chars(doOCR)))

\* runOcr
runOcr(doOCR, method) ==
  IF doOCR = EngineFails THEN OcrResult("", method, 0)
  ELSE OcrResult(doOCR, method, scoreResult(Chars(doOCR)))

NoResponse == <<>>
\* failed is history: the variants on which doOCR threw in this request
HelperInit ==
  [stage |-> "idle", results |-> <<>>, response |-> NoResponse, failed |-> {}]

\* texts scored on their own: every text of up to MaxScoreLen characters
\* over a letter, a digit, a noise character, a blank, '-' and '/', and the
\* two texts of the specification's example
MaxScoreLen == 3
ScoreAlphabet == {"A", "1", "!", " ", "-", "/"}
RECURSIVE StringsUpTo(_, _)
StringsUpTo(alphabet, n) ==
  IF n = 0 THEN {""}
  ELSE LET shorter == StringsUpTo(alphabet, n - 1)
       IN shorter \cup {s \o c : s \in shorter, c \in alphabet}
ScoreTexts == StringsUpTo(ScoreAlphabet, MaxScoreLen) \cup {"ABCD1234", "A!@#1"}
\* the argument of scoreResult: no String (null) or a String
ScoreArgs == {<<>>} \cup {<<t>> : t \in ScoreTexts}

(***************************************************************************)
(* ocrFieldHelpers.ts: cropFieldsFromCard.  An ROI is given by its key and *)
(* the pixel size roi.width * W by roi.height * H of its crop rectangle.   *)
(***************************************************************************)
\* canvas.toDataURL of a canvas without pixels
EmptyDataUrl == "data:,"
Roi(key, sw, sh) == [key |-> key, sw |-> sw, sh |-> sh]

\* the loop over the ROIs: the crops made so far, by key
RECURSIVE CropLoop(_, _, _, _, _)
CropLoop(cardDataUrl, rois, noCtx, i, result) ==
  IF i > Len(rois) THEN result
  ELSE IF rois[i].key \in noCtx
    THEN CropLoop(cardDataUrl, rois, noCtx, i + 1, result)
    ELSE CropLoop(cardDataUrl, rois, noCtx, i + 1,
           (rois[i].key :> (IF rois[i].sw = 0 \/ rois[i].sh = 0 THEN EmptyDataUrl
                            ELSE cardDataUrl \o "#" \o rois[i].key)) @@ result)

\* cropFieldsFromCard for a card image that loads; noCtx are the keys whose
\* field canvas gives no 2D context
cropFieldsFromCard(cardDataUrl, rois, noCtx) ==
  IF Len(rois) = 0 THEN <<>> ELSE CropLoop(cardDataUrl, rois, noCtx, 1, <<>>)

\* the ROI lists cropped on their own: up to MaxRois ROIs, each 40 pixels or
\* none wide and high
MaxRois == 2
RoiSizes == {0, 40}
RoiInputs ==
  SeqsUpTo({Roi(k, sw, sh) : k \in RoiKeys, sw \in RoiSizes, sh \in RoiSizes}, MaxRois)

\* whole-card texts of a PhilSys card, the birth date written with and
\* without the comma, for every month
PhilSysText(dateLine) ==
  "REPUBLIC OF THE PHILIPPINES\nPHILSYS\nApelyido\nDELA CRUZ\nMga Pangalan\nJUAN PEDRO\n"
    \o "Petsa ng Kapanganakan\n" \o dateLine \o "\n1234-5678-9012-3456"
PhilSysDates == {MonthTitles[i] \o tail : i \in 1..12, tail \in {" 3, 1999", " 3 1999"}}
PhilSysTexts == {PhilSysText(d) : d \in PhilSysDates}

(***************************************************************************)
(* cardCropper.ts: orderPoints                                             *)
(***************************************************************************)
Point(x, y) == [x |-> x, y |-> y]

\* Array.prototype.indexOf: the first index holding the value
indexOf(arr, v) == Min({i \in 1..Len(arr) : arr[i] = v})

\* Math.min(...arr) and Math.max(...arr)
MathMin(arr) == Min({arr[i] : i \in 1..Len(arr)})
MathMax(arr) == Max({arr[i] : i \in 1..Len(arr)})

\* orderPoints: the corner of least x + y, the corner of least x - y, the
\* corner of greatest x + y and the corner of greatest x - y, in that order
orderPoints(points) ==
  LET sum == [i \in 1..4 |-> points[i].x + points[i].y]
      diff == [i \in 1..4 |-> points[i].x - points[i].y]
      tlIndex == indexOf(sum, MathMin(sum))
      brIndex == indexOf(sum, MathMax(sum))
      trIndex == indexOf(diff, MathMin(diff))
      blIndex == indexOf(diff, MathMax(diff))
  IN <<points[tlIndex], points[trIndex], points[brIndex], points[blIndex]>>

\* the contours handed to orderPoints: four vertices, in any order, of a
\* quadrilateral on a grid of MaxCoord + 1 by MaxCoord + 1 positions
MaxCoord == 2
Grid == {Point(x, y) : x \in 0..MaxCoord, y \in 0..MaxCoord}

\* twice the signed area of the triangle a, b, c
Cross(a, b, c) == (b.x - a.x) * (c.y - a.y) - (b.y - a.y) * (c.x - a.x)

\* p lies outside the triangle a, b, c and on none of its sides' lines
OutsideTriangle(p, a, b, c) ==
  LET d1 == Cross(a, b, p)
      d2 == Cross(b, c, p)
      d3 == Cross(c, a, p)
  IN /\ d1 # 0 /\ d2 # 0 /\ d3 # 0
     /\ ~(d1 > 0 /\ d2 > 0 /\ d3 > 0)
     /\ ~(d1 < 0 /\ d2 < 0 /\ d3 < 0)

\* four points that are the corners of a convex quadrilateral
IsQuad(q) ==
  /\ Cardinality(q) = 4
  /\ \A p \in q :
       \E a, b, c \in q \ {p} :
         /\ Cardinality({a, b, c}) = 3
         /\ Cross(a, b, c) # 0
         /\ OutsideTriangle(p, a, b, c)

Quads == {q \in SUBSET Grid : IsQuad(q)}

Orderings(q) ==
  {<<a, b, c, d>> : a, b, c, d \in q} \cap {s \in Seq(q) : Cardinality({s[i] : i \in 1..4}) = 4}

QuadInputs == UNION {Orderings(q) : q \in Quads}

(***************************************************************************)
(* ImagePreprocessor.java: calculateOtsuThreshold                          *)
(***************************************************************************)
\* the grey levels of a raster of TYPE_BYTE_GRAY
GreyLevels == 0..255
DefaultThreshold == 128

\* a quotient of integers, for the float values of the loop; the float
\* arithmetic is taken as exact
Ratio(n, d) == [num |-> n, den |-> d]
RatioGreater(a, b) == a.num * b.den > b.num * a.den

\* (float) wB * wF * (mB - mF) * (mB - mF) with mB = sumB / wB and
\* mF = (sum - sumB) / wF
Variance(wB, wF, sumB, sum) ==
  LET d == sumB * wF - (sum - sumB) * wB
  IN Ratio(d * d, wB * wF)

\* the sums of the loops over the 256 grey levels, from level lo to level hi
RECURSIVE WeightedSum(_, _, _)
WeightedSum(histogram, lo, hi) ==
  IF lo = hi THEN lo * histogram[lo]
  ELSE WeightedSum(histogram, lo, (lo + hi) \div 2)
         + WeightedSum(histogram, (lo + hi) \div 2 + 1, hi)

RECURSIVE PixelCount(_, _, _)
PixelCount(histogram, lo, hi) ==
  IF lo = hi THEN histogram[lo]
  ELSE PixelCount(histogram, lo, (lo + hi) \div 2)
         + PixelCount(histogram, (lo + hi) \div 2 + 1, hi)

\* one turn of the loop over t of calculateOtsuThreshold; broke is set by
\* the break and ends the loop
OtsuStep(histogram, total, sum, s, t) ==
  IF s.broke THEN s
  ELSE LET wB == s.wB + histogram[t]
           wF == total - wB
           sumB == s.sumB + t * histogram[t]
           variance == Variance(wB, wF, sumB, sum)
       IN IF wB = 0 THEN [s EXCEPT !.wB = wB]
          ELSE IF wF = 0 THEN [s EXCEPT !.wB = wB, !.broke = TRUE]
          ELSE IF RatioGreater(variance, s.maxVariance)
            THEN [s EXCEPT !.wB = wB, !.sumB = sumB,
                           !.maxVariance = variance, !.threshold = t]
          ELSE [s EXCEPT !.wB = wB, !.sumB = sumB]

\* the turns for t = lo, ..., hi one after the other
RECURSIVE OtsuLoop(_, _, _, _, _, _)
OtsuLoop(histogram, total, sum, s, lo, hi) ==
  IF lo = hi THEN OtsuStep(histogram, total, sum, s, lo)
  ELSE Bind(OtsuLoop(histogram, total, sum, s, lo, (lo + hi) \div 2), LAMBDA half :
         OtsuLoop(histogram, total, sum, half, (lo + hi) \div 2 + 1, hi))

calculateOtsuThreshold(histogram) ==
  Bind(<<PixelCount(histogram, 0, 255), WeightedSum(histogram, 0, 255)>>, LAMBDA ts :
    OtsuLoop(histogram, ts[1], ts[2],
             [wB |-> 0, sumB |-> 0, maxVariance |-> Ratio(0, 1),
              threshold |-> DefaultThreshold, broke |-> FALSE],
             0, 255).threshold)

\* the images given to calculateOtsuThreshold: at least one and at most
\* MaxPixels pixels, with grey levels among a few
MaxPixels == 4
PixelLevels == {0, 1, 127, 128, 254, 255}

RECURSIVE CountSum(_, _)
CountSum(counts, S) ==
  IF S = {} THEN 0
  ELSE LET l == CHOOSE l \in S : TRUE
       IN counts[l] + CountSum(counts, S \ {l})

PixelCounts ==
  {counts \in [PixelLevels -> 0..MaxPixels] :
     CountSum(counts, PixelLevels) \in 1..MaxPixels}

histogramOf(counts) ==
  [pixel \in GreyLevels |-> IF pixel \in PixelLevels THEN counts[pixel] ELSE 0]

\* the texts and types of the calls of parseTextByIdType: the types that the
\* scan page offers or detectIdType returns and whose parser is modelled
ParseTypes ==
  {"National ID", "UMID", "City ID", "School ID", "Passport", "PRC ID", "Other"}
ParseTexts ==
  {"",
   "JUAN DELA CRUZ",
   "12345678",
   "STUDENT ID\nJUAN DELA CRUZ\nDOB 03/01/1999\nNo. 2019-00123.",
   "QUEZON CITY\nQC- 1234567\nDELA CRUZ, JUAN P.\nAddress:\n12 Main St",
   "Apelyido\nDELA CRUZ\nMga Pangalan\nJUAN\n03/01/1999\n1234-5678-9012-3456",
   "UNIFIED MULTI-PURPOSE ID\nCRN-0111-2345678-9\nDELA CRUZ\nJUAN"}

\* the lines of the calls of getLineBelow: label lines of the National ID
\* and value lines, at most MaxLines of them
MaxLines == 2
LabelLines ==
  {"Apelyido/Last Name", "Mga Pangalan/Given Names", "Gitnang Apelyido/Middle Name",
   "Petsa ng Kapanganakan/Date of Birth"}
ValueLines == {"DELA CRUZ", "JUAN PEDRO", "DAVID", "SIDNEY"}
LineInputs == SeqsUpTo(LabelLines \cup ValueLines, MaxLines)
KeywordRegex ==
  [lastName |-> LastNameLabel, givenNames |-> GivenNamesLabel,
   middleName |-> MiddleNameLabel]

(***************************************************************************)
(* ScanIdPage.tsx: operator actions                                        *)
(***************************************************************************)
SelectIdType(t) ==
  /\ ~isCameraModalOpen
  /\ selectedIdType # t
  /\ selectedIdType' = t
  /\ UNCHANGED <<isCameraModalOpen, extractedInfo, manualData, croppedPreview,
                 scanPreview, isFrozen, scanning, toast, cam, pc, scan, hung, hist,
                 ocrTest, call, helper>>

\* the Open Camera button, with the effect on isCameraModalOpen
OpenCamera ==
  /\ ~isCameraModalOpen
  /\ selectedIdType # ""
  /\ Room(1, pc # "idle", TRUE)
  /\ isCameraModalOpen' = TRUE
  /\ cam' = startCamera(cam)
  /\ cancelled' = FALSE
  /\ UNCHANGED <<selectedIdType, extractedInfo, manualData, croppedPreview,
                 scanPreview, isFrozen, scanning, toast, pc, scan, hung,
                 outcome, last, discarded, ocrTest, call, helper>>

\* onClose of the ID scan modal, with the effect on isCameraModalOpen
CloseModal ==
  /\ isCameraModalOpen
  /\ Room(2, pc # "idle", FALSE)
  /\ isCameraModalOpen' = FALSE
  /\ isFrozen' = FALSE
  /\ scanPreview' = NoImage
  /\ cam' = stopCamera(stopCamera(cam))
  /\ cancelled' = (pc # "idle")
  /\ UNCHANGED <<selectedIdType, extractedInfo, manualData, croppedPreview,
                 scanning, toast, pc, scan, hung, outcome, last, discarded,
                 ocrTest, call, helper>>

\* typing into the manual entry form
ManualEdit(v) ==
  /\ ~isCameraModalOpen
  /\ manualData # v
  /\ manualData' = v
  /\ discarded' = IF discarded = "cleared" THEN "typed" ELSE discarded
  /\ UNCHANGED <<isCameraModalOpen, selectedIdType, extractedInfo, croppedPreview,
                 scanPreview, isFrozen, scanning, toast, cam, pc, scan, hung,
                 outcome, cancelled, last, ocrTest, call, helper>>

OrStr(a, b) == IF a # "" THEN a ELSE b

handleManualSave ==
  /\ ~isCameraModalOpen
  /\ extractedInfo' =
       <<[fullName |-> manualData.fullName, dob |-> manualData.dob,
          idNumber |-> manualData.idNumber,
          idType |-> OrStr(selectedIdType,
                       OrStr((IF extractedInfo = NoInfo THEN ""
                              ELSE extractedInfo[1].idType), "Unknown"))]>>
  /\ discarded' = "no"
  /\ UNCHANGED <<isCameraModalOpen, selectedIdType, manualData, croppedPreview,
                 scanPreview, isFrozen, scanning, toast, cam, pc, scan, hung,
                 outcome, cancelled, last, ocrTest, call, helper>>

handleDiscard ==
  /\ ~isCameraModalOpen
  /\ Room(1, pc # "idle", FALSE)
  /\ extractedInfo' = NoInfo
  /\ manualData' = EmptyManual
  /\ selectedIdType' = ""
  /\ croppedPreview' = NoImage
  /\ scanPreview' = NoImage
  /\ isFrozen' = FALSE
  /\ cam' = stopCamera(cam)
  /\ discarded' = "cleared"
  /\ UNCHANGED <<isCameraModalOpen, scanning, toast, pc, scan, hung,
                 outcome, cancelled, last, ocrTest, call, helper>>

(***************************************************************************)
(* ScanIdPage.tsx: handleScanClick, one action per await                   *)
(***************************************************************************)
isReasonableName(candidate) ==
  Bind(trim(candidate), LAMBDA trimmed :
    /\ Len(trimmed) >= 5
    /\ ~Test(<<LitI("name")>>, trimmed)
    /\ Test(<<One(WS)>>, trimmed))

\* isReasonableName of each name the name crop can give, computed once
IsReasonableNameOf ==
  [n \in {CleanRoiNameOf[t] : t \in NameTexts} |-> isReasonableName(Chars(n))]

\* the fallback dropped: the crop result is used whether or not it succeeded
FinalDataUrlNoFallback(cropResult, dataUrl) == cropResult.dataUrl

\* cropResult.success && cropResult.dataUrl ? cropResult.dataUrl : dataUrl
FinalDataUrl(cropResult, dataUrl) ==
  IF cropResult.success /\ cropResult.dataUrl # NoImage
    THEN cropResult.dataUrl ELSE dataUrl

\* the ROI name taken first for every ID type, unchecked
MergedFullNameRoiFirst(selType, roiFullName, fromFull) ==
  OrStr(roiFullName, OrStr(fromFull.fullName, ""))

MergedFullName(selType, roiFullName, fromFull) ==
  IF selType = "National ID"
    THEN OrStr(fromFull.fullName, OrStr(roiFullName, ""))
    ELSE OrStr((IF roiFullName # "" /\ IsReasonableNameOf[roiFullName]
                  THEN roiFullName ELSE fromFull.fullName), "")
\* the whole-card date taken before the ROI date
MergedDobWholeFirst(roiDob, fromFull) == OrStr(fromFull.dob, OrStr(roiDob, ""))

MergedDob(roiDob, fromFull) == OrStr(roiDob, OrStr(fromFull.dob, ""))
MergedIdNumber(roiIdNumber, fromFull) == OrStr(roiIdNumber, OrStr(fromFull.idNumber, ""))
MergedIdType(selType, fromFull) == OrStr(fromFull.idType, OrStr(selType, "Unknown"))
\* the second test of the no-data check without its negation
IsNoDataNegated(hasUsefulData, roiHasAnyData) == ~hasUsefulData /\ roiHasAnyData

\* if (!hasUsefulData && !roiHasAnyData)
IsNoData(hasUsefulData, roiHasAnyData) == ~hasUsefulData /\ ~roiHasAnyData

\* the ROI crop, in the code's order, that is OCRed after the crops in done
NextOcr(fieldImages, done) ==
  IF "fullName" \in fieldImages \ done THEN "ocrName"
  ELSE IF "dob" \in fieldImages \ done THEN "ocrDob"
  ELSE IF "idNumber" \in fieldImages \ done THEN "ocrId"
  ELSE "whole"
CropOf(stage) ==
  CASE stage = "ocrName" -> "fullName" [] stage = "ocrDob" -> "dob"
    [] stage = "ocrId" -> "idNumber" [] OTHER -> "card"
\* the image handed to the OCR helper at a stage: a field crop or the card
OcrArg(stage, finalDataUrl) ==
  IF stage = "whole" THEN finalDataUrl ELSE finalDataUrl \o "#" \o CropOf(stage)
OcrStages == {"ocrName", "ocrDob", "ocrId", "whole"}

\* the button is disabled while scanning; it lives in the modal, which opens
\* only with an ID type selected
ScanClick(ctxOk) ==
  /\ isCameraModalOpen
  /\ ~scanning
  /\ pc = "idle"
  /\ selectedIdType # ""
  /\ LET dataUrl == captureFrame(ctxOk)
     IN IF dataUrl = NoImage
          THEN /\ toast' = Toast(NoFrameMsg, "error")
               /\ scanning' = FALSE
               /\ outcome' = "noFrame"
               /\ UNCHANGED <<isCameraModalOpen, selectedIdType, extractedInfo,
                              manualData, croppedPreview, scanPreview, isFrozen,
                              cam, pc, scan, hung, cancelled, last, discarded>>
          ELSE /\ Room(1, TRUE, TRUE)
               /\ scanning' = TRUE
               /\ scanPreview' = dataUrl
               /\ isFrozen' = TRUE
               /\ cam' = stopCamera(cam)
               /\ pc' = "crop"
               /\ scan' = [NoScan EXCEPT !.selType = selectedIdType,
                                         !.dataUrl = dataUrl, !.arg = dataUrl]
               /\ hung' = FALSE
               /\ outcome' = "none"
               /\ cancelled' = FALSE
               /\ discarded' = "no"
               /\ last' = NoMerge
               /\ UNCHANGED <<isCameraModalOpen, selectedIdType, extractedInfo,
                              manualData, croppedPreview, toast>>
  /\ UNCHANGED <<ocrTest, call, helper>>

\* cropIdCardFromDataUrl runs OpenCV on the frame: what it finds
CvRuns(cv) ==
  /\ pc = "crop"
  /\ pc' = "cropped"
  /\ scan' = [scan EXCEPT !.cv = cv]
  /\ UNCHANGED <<page, cam, hung, hist, ocrTest, call, helper>>

\* cropIdCardFromDataUrl resolves (it catches its own errors); the handler
\* goes on to getRoisForIdType and awaits cropFieldsFromCard
CropDone ==
  /\ pc = "cropped"
  /\ LET cropResult == cropIdCardFromDataUrl(scan.dataUrl, scan.cv)
         finalDataUrl == FinalDataUrl(cropResult, scan.dataUrl)
     IN /\ scanPreview' = finalDataUrl
        /\ croppedPreview' = finalDataUrl
        /\ scan' = [scan EXCEPT !.cv = NoCv,
                                !.success = cropResult.success,
                                !.finalDataUrl = finalDataUrl,
                                !.arg = finalDataUrl]
  /\ pc' = "fields"
  /\ UNCHANGED <<isCameraModalOpen, selectedIdType, extractedInfo, manualData,
                 isFrozen, scanning, toast, cam, hung, hist, ocrTest, call, helper>>

\* the catch block without its startCamera()
CatchNoRestart(msg) ==
  /\ toast' = Toast(msg, "error")
  /\ isFrozen' = FALSE
  /\ scanPreview' = NoImage
  /\ scanning' = FALSE
  /\ pc' = "idle"
  /\ scan' = NoScan
  /\ outcome' = "failed"
  /\ UNCHANGED <<isCameraModalOpen, selectedIdType, extractedInfo, manualData,
                 croppedPreview, cam, hung, cancelled, last, discarded, ocrTest, call, helper>>

\* the catch and finally blocks of handleScanClick
Catch(msg) ==
  /\ toast' = Toast(msg, "error")
  /\ isFrozen' = FALSE
  /\ scanPreview' = NoImage
  /\ cam' = startCamera(cam)
  /\ scanning' = FALSE
  /\ pc' = "idle"
  /\ scan' = NoScan
  /\ outcome' = "failed"
  /\ UNCHANGED <<isCameraModalOpen, selectedIdType, extractedInfo, manualData,
                 croppedPreview, hung, cancelled, last, discarded, ocrTest, call, helper>>

\* cropFieldsFromCard resolves with a crop for each ROI whose canvas gave a
\* 2D context (noCtx: those that gave none); the first OCR request is sent
FieldsDone(noCtx) ==
  /\ pc = "fields"
  /\ LET fieldImages == getRoisForIdType(scan.selType) \ noCtx
     IN /\ pc' = NextOcr(fieldImages, {})
        /\ scan' = [scan EXCEPT !.fieldImages = fieldImages,
                                !.arg = OcrArg(NextOcr(fieldImages, {}), scan.finalDataUrl)]
  /\ UNCHANGED <<page, cam, hung, hist, ocrTest, call, helper>>

\* cropFieldsFromCard rejects: the card image fails to load or has no context
FieldsFail ==
  /\ pc = "fields"
  /\ Catch(OcrFailedMsg)

\* the OCR helper never answers the request that is being awaited
EngineHangs ==
  /\ pc \in OcrStages
  /\ ~hung
  /\ hung' = TRUE
  /\ UNCHANGED <<page, cam, pc, scan, hist, ocrTest, call, helper>>

OcrNameDone(text) ==
  /\ pc = "ocrName"
  /\ ~hung
  /\ pc' = NextOcr(scan.fieldImages, {"fullName"})
  /\ scan' = [scan EXCEPT !.roiFullName = CleanRoiNameOf[text],
                          !.arg = OcrArg(pc', scan.finalDataUrl)]
  /\ UNCHANGED <<page, cam, hung, hist, ocrTest, call, helper>>

OcrDobDone(text) ==
  /\ pc = "ocrDob"
  /\ ~hung
  /\ pc' = NextOcr(scan.fieldImages, {"fullName", "dob"})
  /\ scan' = [scan EXCEPT !.roiDob = ExtractDobOf[text],
                          !.arg = OcrArg(pc', scan.finalDataUrl)]
  /\ UNCHANGED <<page, cam, hung, hist, ocrTest, call, helper>>

\* roiIdNumber = extractNationalIdNumber(text) || text.trim()
OcrIdDone(text) ==
  /\ pc = "ocrId"
  /\ ~hung
  /\ pc' = "whole"
  /\ scan' = [scan EXCEPT !.roiIdNumber = OrStr(ExtractNationalIdOf[text], TrimOf[text]),
                          !.arg = OcrArg("whole", scan.finalDataUrl)]
  /\ UNCHANGED <<page, cam, hung, hist, ocrTest, call, helper>>

\* extractText throws (response not ok, network error) for the awaited request
OcrFail ==
  /\ pc \in OcrStages
  /\ ~hung
  /\ Catch("OCR request failed: 500")

\* the merged record of step 5, from the ROI values and the whole-card parse
Merged(selType, roiFullName, roiDob, roiIdNumber, fromFull) ==
  [fullName |-> MergedFullName(selType, roiFullName, fromFull),
   dob |-> MergedDob(roiDob, fromFull),
   idNumber |-> MergedIdNumber(roiIdNumber, fromFull),
   idType |-> MergedIdType(selType, fromFull)]
HasUsefulData(merged) ==
  Len(merged.fullName) > 0 \/ Len(merged.dob) > 0 \/ Len(merged.idNumber) > 0
RoiHasAnyData(roiFullName, roiDob, roiIdNumber) ==
  roiFullName # "" \/ roiDob # "" \/ roiIdNumber # ""

\* runWholeCardOcrAndParse resolves; merge and the two ends of the try block
WholeDone(text) ==
  /\ pc = "whole"
  /\ ~hung
  /\ \E fromFull \in {ParseOf[text, scan.selType]} :
     \E extended \in {Merged(scan.selType, scan.roiFullName, scan.roiDob,
                             scan.roiIdNumber, fromFull)} :
     \E merge \in {[selType |-> scan.selType, roiFullName |-> scan.roiFullName,
                     roiDob |-> scan.roiDob, roiIdNumber |-> scan.roiIdNumber,
                     fromFull |-> <<fromFull>>, extended |-> NoInfo]} :
       IF IsNoData(HasUsefulData(extended),
                   RoiHasAnyData(scan.roiFullName, scan.roiDob, scan.roiIdNumber))
         THEN /\ last' = merge
              /\ toast' = Toast(NoDataMsg, "error")
              /\ isFrozen' = FALSE
              /\ scanPreview' = NoImage
              /\ cam' = startCamera(cam)
              /\ outcome' = "noData"
              /\ UNCHANGED <<isCameraModalOpen, extractedInfo, manualData>>
         ELSE /\ last' = [merge EXCEPT !.extended = <<extended>>]
              /\ extractedInfo' = <<extended>>
              /\ manualData' = [fullName |-> extended.fullName, dob |-> extended.dob,
                                idNumber |-> extended.idNumber]
              /\ isCameraModalOpen' = FALSE
              /\ isFrozen' = FALSE
              /\ scanPreview' = NoImage
              /\ cam' = IF isCameraModalOpen THEN stopCamera(stopCamera(cam))
                        ELSE stopCamera(cam)
              /\ outcome' = "stored"
              /\ UNCHANGED toast
  /\ scanning' = FALSE
  /\ pc' = "idle"
  /\ scan' = NoScan
  /\ UNCHANGED <<selectedIdType, croppedPreview, hung, cancelled, discarded,
                 ocrTest, call, helper>>

(***************************************************************************)
(* OcrTestPage.tsx: an upload, then classification of the multipass text   *)
(***************************************************************************)
NoResult == <<>>
OcrTestInit == [isLoading |-> FALSE, multipassResult |-> NoResult, detectedType |-> NoResult]

\* handleFileUpload up to its first await
handleFileUpload ==
  /\ ocrTest' = [ocrTest EXCEPT !.isLoading = TRUE, !.multipassResult = NoResult]
  /\ UNCHANGED <<page, cam, pc, scan, hung, hist, call, helper>>

\* the multipass response arrives: setMultipassResult, detectIdType
MultipassDone(text) ==
  /\ ocrTest.isLoading
  /\ ocrTest' = [isLoading |-> FALSE, multipassResult |-> <<text>>,
                 detectedType |-> <<DetectOf[text]>>]
  /\ UNCHANGED <<page, cam, pc, scan, hung, hist, call, helper>>

\* a request of the upload fails: the catch and finally of the handler
MultipassFail ==
  /\ ocrTest.isLoading
  /\ ocrTest' = [ocrTest EXCEPT !.isLoading = FALSE]
  /\ UNCHANGED <<page, cam, pc, scan, hung, hist, call, helper>>

(***************************************************************************)
(* Specifications                                                          *)
(***************************************************************************)
Init ==
  /\ isCameraModalOpen = FALSE
  /\ selectedIdType = ""
  /\ extractedInfo = NoInfo
  /\ manualData = EmptyManual
  /\ croppedPreview = NoImage
  /\ scanPreview = NoImage
  /\ isFrozen = FALSE
  /\ scanning = FALSE
  /\ toast = NoToast
  /\ cam = CamInit
  /\ pc = "idle"
  /\ scan = NoScan
  /\ hung = FALSE
  /\ outcome = "none"
  /\ cancelled = FALSE
  /\ discarded = "no"
  /\ last = NoMerge
  /\ ocrTest = OcrTestInit
  /\ call = NoCall
  /\ helper = HelperInit

\* the steps that resume handleScanClick after an await
ScanStep ==
  \/ \E cv \in CvInputs : CvRuns(cv)
  \/ CropDone
  \/ \E noCtx \in SUBSET RoiKeys : FieldsDone(noCtx)
  \/ FieldsFail
  \/ \E text \in NameTexts : OcrNameDone(text)
  \/ \E text \in DobTexts : OcrDobDone(text)
  \/ \E text \in IdTexts : OcrIdDone(text)
  \/ OcrFail
  \/ \E text \in WholeTexts : WholeDone(text)

\* the scan page with its camera
Next ==
  \/ \E t \in ScanTypes \cup {""} : SelectIdType(t)
  \/ OpenCamera
  \/ CloseModal
  \/ \E v \in ManualInputs : ManualEdit(v)
  \/ handleManualSave
  \/ handleDiscard
  \/ \E r \in 1..MaxRequestId : GumResolve(r)
  \/ \E r \in 1..MaxRequestId : GumReject(r)
  \/ \E ctxOk \in BOOLEAN : ScanClick(ctxOk)
  \/ EngineHangs
  \/ ScanStep

Spec == Init /\ [][Next]_vars

\* every awaited step that gets an answer is eventually resumed
FairSpec == Spec /\ WF_vars(ScanStep)

\* the OCR test page
NextOcrTest ==
  \/ handleFileUpload
  \/ \E text \in OcrTestTexts : MultipassDone(text)
  \/ MultipassFail

SpecOcrTest == Init /\ [][NextOcrTest]_vars

(***************************************************************************)
(* The image helpers called on their own                                   *)
(***************************************************************************)
CallOrderPoints(pts) ==
  /\ call = NoCall
  /\ call' = Called("orderPoints", pts, orderPoints(pts))
  /\ UNCHANGED <<page, cam, pc, scan, hung, hist, ocrTest, helper>>

CallCalculateOtsuThreshold(counts) ==
  /\ call = NoCall
  /\ call' = Called("calculateOtsuThreshold", <<counts>>,
                    calculateOtsuThreshold(histogramOf(counts)))
  /\ UNCHANGED <<page, cam, pc, scan, hung, hist, ocrTest, helper>>

(***************************************************************************)
(* The parsers called on their own                                         *)
(***************************************************************************)
CallParseTextByIdType(text, idType) ==
  /\ call = NoCall
  /\ call' = Called("parseTextByIdType", <<text, idType>>,
                    parseTextByIdType(Chars(text), idType))
  /\ UNCHANGED <<page, cam, pc, scan, hung, hist, ocrTest, helper>>

CallGetLineBelow(lines, field) ==
  /\ call = NoCall
  /\ call' = Called("getLineBelow", <<lines, field>>,
                    Str(getLineBelow([i \in 1..Len(lines) |-> Chars(lines[i])],
                                     KeywordRegex[field])))
  /\ UNCHANGED <<page, cam, pc, scan, hung, hist, ocrTest, helper>>

(***************************************************************************)
(* useCamera.tsx called in any order.  call holds the last of startCamera  *)
(* and stopCamera and, since then, the last getUserMedia that settled.     *)
(***************************************************************************)
HookStartCamera ==
  /\ cam.startRequestId < MaxRequestId
  /\ cam' = startCamera(cam)
  /\ call' = Called("startCamera", 0, "")
  /\ UNCHANGED <<page, pc, scan, hung, hist, ocrTest, helper>>

HookStopCamera ==
  /\ cam.startRequestId < MaxRequestId
  /\ cam' = stopCamera(cam)
  /\ call' = Called("stopCamera", 0, "")
  /\ UNCHANGED <<page, pc, scan, hung, hist, ocrTest, helper>>

HookResolve(r) ==
  /\ r \in cam.requests
  /\ cam' = getUserMediaResolved(cam, r)
  /\ call' = [call EXCEPT !.arg = r,
                          !.result = IF r # cam.startRequestId THEN "stale" ELSE "current"]
  /\ UNCHANGED <<page, pc, scan, hung, hist, ocrTest, helper>>

HookReject(r) ==
  /\ r \in cam.requests
  /\ cam' = getUserMediaRejected(cam, r)
  /\ call' = [call EXCEPT !.arg = r,
                          !.result = IF r # cam.startRequestId THEN "stale" ELSE "failed"]
  /\ UNCHANGED <<page, pc, scan, hung, hist, ocrTest, helper>>

NextCamera ==
  \/ HookStartCamera
  \/ HookStopCamera
  \/ \E r \in 1..MaxRequestId : HookResolve(r)
  \/ \E r \in 1..MaxRequestId : HookReject(r)

SpecCamera == Init /\ [][NextCamera]_vars

(***************************************************************************)
(* The helper functions called on their own, one call in a behaviour       *)
(***************************************************************************)
CallExtractNationalIdNumber(text) ==
  /\ call = NoCall
  /\ call' = Called("extractNationalIdNumber", text,
                    Str(extractNationalIdNumber(Chars(text))))
  /\ UNCHANGED <<page, cam, pc, scan, hung, hist, ocrTest, helper>>

CallNormalizeDate(dateStr) ==
  /\ call = NoCall
  /\ call' = Called("normalizeDate", dateStr, Str(normalizeDate(Chars(dateStr))))
  /\ UNCHANGED <<page, cam, pc, scan, hung, hist, ocrTest, helper>>

CallExtractDobFromText(text) ==
  /\ call = NoCall
  /\ call' = Called("extractDobFromText", text, Str(extractDobFromText(Chars(text))))
  /\ UNCHANGED <<page, cam, pc, scan, hung, hist, ocrTest, helper>>

CallPickBestDob(text) ==
  /\ call = NoCall
  /\ call' = Called("pickBestDob", text, Str(pickBestDob(Chars(text))))
  /\ UNCHANGED <<page, cam, pc, scan, hung, hist, ocrTest, helper>>

(***************************************************************************)
(* OcrController.java: a request to /api/ocr/multipass                     *)
(***************************************************************************)
\* extractTextMultipass up to the first pass: an empty or unreadable file is
\* answered with 400
MultipassRequest(readable) ==
  /\ helper.stage # "running"
  /\ helper' = IF readable
                 THEN [stage |-> "running", results |-> <<>>, response |-> NoResponse,
                       failed |-> {}]
                 ELSE [stage |-> "answered", results |-> <<>>,
                       response |-> <<[status |-> 400]>>, failed |-> {}]
  /\ UNCHANGED <<page, cam, pc, scan, hung, hist, ocrTest, call>>

\* results.add(runOcr(..., method)) for the next variant
RunPass(doOCR) ==
  /\ helper.stage = "running"
  /\ Len(helper.results) < Len(Variants)
  /\ helper' = [helper EXCEPT
                  !.results = Append(@, runOcr(doOCR, Variants[Len(@) + 1])),
                  !.failed = IF doOCR = EngineFails
                               THEN @ \cup {Variants[Len(helper.results) + 1]} ELSE @]
  /\ UNCHANGED <<page, cam, pc, scan, hung, hist, ocrTest, call>>

\* selectBest and the response
MultipassRespond ==
  /\ helper.stage = "running"
  /\ Len(helper.results) = Len(Variants)
  /\ \E best \in {selectBest(helper.results)} :
       helper' = [helper EXCEPT
                    !.stage = "answered",
                    !.response = <<[status |-> 200, extractedText |-> best.text,
                                    method |-> best.method, score |-> best.score]>>]
  /\ UNCHANGED <<page, cam, pc, scan, hung, hist, ocrTest, call>>

\* arg is <<>> for a null text and <<text>> otherwise
CallScoreResult(arg) ==
  /\ call = NoCall
  /\ call' = Called("scoreResult", arg,
                    scoreResult(IF arg = <<>> THEN Null ELSE Chars(arg[1])))
  /\ UNCHANGED <<page, cam, pc, scan, hung, hist, ocrTest, helper>>

CallCropFieldsFromCard(rois, noCtx) ==
  /\ call = NoCall
  /\ call' = Called("cropFieldsFromCard", <<rois, noCtx>>,
                    cropFieldsFromCard("card", rois, noCtx))
  /\ UNCHANGED <<page, cam, pc, scan, hung, hist, ocrTest, helper>>

\* classify, then parse with the detected type, as the OCR test page does
\* when no type is selected
CallClassifyThenParse(text) ==
  /\ call = NoCall
  /\ \E detected \in {detectIdType(Chars(text))} :
       /\ detected.idType \in {"National ID", "UMID"}
       /\ call' = Called("classifyThenParse", text,
                         [detected |-> detected,
                          parsed |-> parseTextByIdType(Chars(text), detected.idType)])
  /\ UNCHANGED <<page, cam, pc, scan, hung, hist, ocrTest, helper>>

(***************************************************************************)
(* Specifications of the helper functions and of the OCR helper            *)
(***************************************************************************)
NextCalls ==
  \/ \E text \in NatIdTexts : CallExtractNationalIdNumber(text)
  \/ \E dateStr \in DateTexts : CallNormalizeDate(dateStr)
  \/ \E text \in DateTexts : CallExtractDobFromText(text)
  \/ \E text \in DateTexts : CallPickBestDob(text)
  \/ \E arg \in ScoreArgs : CallScoreResult(arg)
  \/ \E rois \in RoiInputs, noCtx \in {{}, {"dob"}} : CallCropFieldsFromCard(rois, noCtx)
  \/ \E text \in PhilSysTexts : CallClassifyThenParse(text)
  \/ \E pts \in QuadInputs : CallOrderPoints(pts)
  \/ \E counts \in PixelCounts : CallCalculateOtsuThreshold(counts)
  \/ \E text \in ParseTexts, idType \in ParseTypes : CallParseTextByIdType(text, idType)
  \/ \E lines \in LineInputs, field \in DOMAIN KeywordRegex : CallGetLineBelow(lines, field)

SpecCalls == Init /\ [][NextCalls]_vars

NextHelper ==
  \/ \E readable \in BOOLEAN : MultipassRequest(readable)
  \/ \E doOCR \in PassOutcomes : RunPass(doOCR)
  \/ MultipassRespond

SpecHelper == Init /\ [][NextHelper]_vars

(***************************************************************************)
(* Properties                                                              *)
(***************************************************************************)
\* a getUserMedia request of the current startCamera call is under way
CameraRestarted(c) == c.startRequestId \in c.requests
\* s is written ####-####-####-####
IsNationalIdForm(s) ==
  /\ Len(s) = 19
  /\ \A i \in 1..19 : IF i \in {5, 10, 15} THEN SubSeq(s, i, i) = "-"
                      ELSE SubSeq(s, i, i) \in Digits
\* the contours hold a quadrilateral of area 3000 or more and nothing threw
HasCardQuad(cv) ==
  /\ ~cv.throws
  /\ \E i \in 1..Len(cv.contours) : cv.contours[i].rows = 4 /\ cv.contours[i].area >= 3000
\* the name check of the merge: five characters or more after trimming, some
\* whitespace, and no "name" in any case
PassesNameCheck(name) ==
  LET cs == toLowerCase(trim(Chars(name)))
  IN /\ Len(cs) >= 5
     /\ \E i \in 1..Len(cs) : cs[i] \in WS
     /\ \A i \in 1..(Len(cs) - 3) : SubSeq(cs, i, i + 3) # Chars("name")

\* C1: when the last whole-card OCR answers and neither an ROI nor the
\* whole-card parse gave any value, the scan ends as a reported failure: the
\* no-data message is shown as an error, extractedInfo and manualData are
\* left as they were, the frozen frame is cleared and the camera is restarted.
C1_NoDataIsReportedFailure ==
  [][(/\ pc = "whole" /\ pc' = "idle"
      /\ last'.fromFull # NoInfo
      /\ last'.roiFullName = "" /\ last'.roiDob = "" /\ last'.roiIdNumber = ""
      /\ last'.fromFull[1].fullName = "" /\ last'.fromFull[1].dob = ""
      /\ last'.fromFull[1].idNumber = "")
     => (/\ toast' = Toast(NoDataMsg, "error")
         /\ extractedInfo' = extractedInfo
         /\ manualData' = manualData
         /\ ~isFrozen'
         /\ scanPreview' = NoImage
         /\ CameraRestarted(cam')
         /\ ~scanning')]_vars

C1_Witness ==
  /\ pc = "idle" /\ outcome = "noData"
  /\ last.fromFull # NoInfo /\ last.extended = NoInfo
  /\ toast = Toast(NoDataMsg, "error")
  /\ extractedInfo # NoInfo /\ manualData # EmptyManual
  /\ ~isFrozen /\ CameraRestarted(cam)

\* C2: when cropIdCardFromDataUrl resolves the scan goes on to the ROI
\* cropping, on the rectified image if OpenCV found a quadrilateral of area
\* 3000 or more without throwing and on the raw frame otherwise; every image
\* then handed to the OCR helper is that image or a crop of it.
C2_RectificationFallsBackToRawFrame ==
  /\ [][(pc = "cropped" /\ pc' # "cropped")
        => (/\ pc' = "fields"
            /\ scanning'
            /\ scan'.finalDataUrl = IF HasCardQuad(scan.cv) THEN Rectified(scan.dataUrl)
                                    ELSE scan.dataUrl)]_vars
  /\ [][(pc \in OcrStages \cup {"fields"} /\ pc' \in OcrStages)
        => scan'.finalDataUrl = scan.finalDataUrl]_vars
  /\ [](pc \in OcrStages
        => /\ scan.finalDataUrl \in {scan.dataUrl, Rectified(scan.dataUrl)}
           /\ IF pc = "whole" THEN scan.arg = scan.finalDataUrl
              ELSE scan.arg \in {scan.finalDataUrl \o "#" \o k : k \in RoiKeys})

C2_Witness ==
  /\ pc = "whole" /\ scanning
  /\ ~scan.success
  /\ scan.dataUrl # NoImage
  /\ scan.arg = scan.dataUrl

\* C3: a scan never stays in progress for ever: whenever scanning is true it
\* is false again later, also when the OCR helper never answers a request.
C3_HungEngineDoesNotHangScan == scanning ~> ~scanning

\* C4: handleScanClick is never left with scanning still true, and the step
\* that ends a scan either stores the merged record or reports an error and
\* restarts the camera, never both and never neither.
C4_ScanEndsInOneOfTwoOutcomes ==
  /\ [](pc = "idle" => ~scanning)
  /\ [][(scanning /\ ~scanning')
        => LET stored == /\ outcome' = "stored"
                         /\ last'.extended # NoInfo
                         /\ extractedInfo' = last'.extended
                         /\ ~isCameraModalOpen'
                         /\ toast' = toast
             reported == /\ outcome' \in {"noData", "failed"}
                         /\ toast'.variant = "error" /\ toast'.msg # ""
                         /\ extractedInfo' = extractedInfo
                         /\ CameraRestarted(cam')
           IN stored \/ reported]_vars

C4_Witness ==
  /\ pc = "idle" /\ ~scanning /\ outcome = "failed"
  /\ toast.variant = "error"
  /\ CameraRestarted(cam)

\* C5: once a scan that the operator cancelled by closing the modal has
\* finished, the modal is closed and the ID camera is stopped.
C5_CancelledScanLeavesCameraStopped ==
  (cancelled /\ pc = "idle")
    => (~isCameraModalOpen /\ cam.mediaStreamRef = NoStream /\ ~cam.isActive)

\* C6: the stored fullName is, for National ID, the whole-card name unless
\* that is empty and then the ROI name; for every other type the ROI name if
\* it passes the name check and the whole-card name otherwise.
C6_MergedFullNameRule ==
  last.extended # NoInfo
    => last.extended[1].fullName =
         (IF last.selType = "National ID"
            THEN (IF last.fromFull[1].fullName # "" THEN last.fromFull[1].fullName
                  ELSE last.roiFullName)
            ELSE (IF PassesNameCheck(last.roiFullName) THEN last.roiFullName
                  ELSE last.fromFull[1].fullName))

C6_Witness ==
  /\ last.extended # NoInfo /\ extractedInfo = last.extended
  /\ last.selType = "UMID"
  /\ last.roiFullName = "SANT0S, MARIA"
  /\ last.fromFull[1].fullName = "MARIA SANTOS"
  /\ extractedInfo[1].fullName = "SANT0S, MARIA"

\* C7: the stored dob and idNumber are the ROI values where those are not
\* empty and the whole-card values otherwise.
C7_MergedDobAndIdNumberRule ==
  last.extended # NoInfo
    => /\ last.extended[1].dob =
            (IF last.roiDob # "" THEN last.roiDob ELSE last.fromFull[1].dob)
       /\ last.extended[1].idNumber =
            (IF last.roiIdNumber # "" THEN last.roiIdNumber
             ELSE last.fromFull[1].idNumber)

C7_Witness ==
  /\ last.extended # NoInfo /\ extractedInfo = last.extended
  /\ last.roiDob # "" /\ last.fromFull[1].dob # ""
  /\ last.roiDob # last.fromFull[1].dob
  /\ extractedInfo[1].dob = last.roiDob
  /\ last.roiIdNumber = "" /\ extractedInfo[1].idNumber = last.fromFull[1].idNumber
  /\ extractedInfo[1].idNumber # ""

\* C8: in a National ID scan the ROI idNumber and the merged idNumber are
\* each empty or written ####-####-####-####.
C8_MalformedNationalIdIsLeftEmpty ==
  (last.selType = "National ID" /\ last.fromFull # NoInfo)
    => /\ last.roiIdNumber = "" \/ IsNationalIdForm(last.roiIdNumber)
       /\ last.extended # NoInfo
            => \/ last.extended[1].idNumber = ""
               \/ IsNationalIdForm(last.extended[1].idNumber)

\* the text of the last multipass response holds the i-th fragment
HasFragment(i) ==
  LET t == ocrTest.multipassResult[1]
      w == Fragments[i]
  IN \E p \in 1..(Len(t) - Len(w) + 1) : SubSeq(t, p, p + Len(w) - 1) = w
\* the signatures of the seven types, in priority order, read off the fragments
\* the text holds: a ####-####-####-#### number; a CRN or the republic and
\* multi-purpose wording; a licence number; the PhilHealth brand; the SSS
\* brand, or a standalone SSS with an SSS-format number and no multi-purpose
\* marker; a municipality; a university
Signatures ==
  <<HasFragment(1),
    HasFragment(2) \/ HasFragment(3),
    HasFragment(4),
    HasFragment(5),
    HasFragment(8) \/ (HasFragment(6) /\ (HasFragment(7) \/ HasFragment(2)) /\ ~HasFragment(3)),
    HasFragment(9),
    HasFragment(10)>>
PriorityOrder ==
  <<"National ID", "UMID", "Driver's License", "PhilHealth ID", "SSS ID", "City ID",
    "School ID">>
PriorityConfidence == <<95, 95, 90, 90, 85, 80, 70>>
\* a classification of the text now shown has been made
Classified == ocrTest.multipassResult # NoResult /\ ocrTest.detectedType # NoResult

\* C9: for a text matching some signature detectIdType answers the first
\* type in the priority order whose signature matches, with that type's
\* confidence, whatever later signatures match as well.
C9_FirstMatchingSignatureWins ==
  (Classified /\ \E k \in 1..7 : Signatures[k])
    => \E sig \in {Signatures} :
         \E first \in {k \in 1..7 : sig[k] /\ \A j \in 1..(k - 1) : ~sig[j]} :
           /\ ocrTest.detectedType[1].idType = PriorityOrder[first]
           /\ ocrTest.detectedType[1].confidence = PriorityConfidence[first]

C9_Witness ==
  /\ Classified
  /\ \A i \in 1..3 : ~HasFragment(i)
  /\ \A i \in 4..10 : HasFragment(i)
  /\ ocrTest.detectedType[1].idType = "Driver's License"
  /\ ocrTest.detectedType[1].confidence = 90

\* C10: a text holding a CRN is never classified SSS ID, and is classified
\* UMID unless it also holds a National ID number.
C10_CrnIsNeverSss ==
  (Classified /\ HasFragment(2))
    => /\ ocrTest.detectedType[1].idType # "SSS ID"
       /\ ~HasFragment(1) => ocrTest.detectedType[1].idType = "UMID"

C10_Witness ==
  /\ Classified
  /\ HasFragment(2) /\ HasFragment(6) /\ HasFragment(7) /\ HasFragment(8)
  /\ \A i \in {1, 3, 4, 5} : ~HasFragment(i)
  /\ ocrTest.detectedType[1].idType = "UMID"

\* C11: a text that matches none of the seven signatures, the empty text
\* included, is classified Other with confidence 0.3.
C11_NoSignatureIsOtherAtThreeTenths ==
  (Classified /\ \A k \in 1..7 : ~Signatures[k])
    => /\ ocrTest.detectedType[1].idType = "Other"
       /\ ocrTest.detectedType[1].confidence = 30

\* the two-digit numbers of the months
MonthNumbers == <<"01", "02", "03", "04", "05", "06", "07", "08", "09", "10", "11", "12">>

\* C12: classifying and then parsing a PhilSys text whose birth date is
\* written Month 3, 1999 or Month 3 1999 gives National ID, the name
\* JUAN PEDRO DELA CRUZ, the number 1234-5678-9012-3456 and the dob 1999-MM-03.
C12_PhilSysTextParsesToCanonicalRecord ==
  call.fn = "classifyThenParse"
    => /\ call.result.detected.idType = "National ID"
       /\ call.result.parsed.idType = "National ID"
       /\ call.result.parsed.fullName = "JUAN PEDRO DELA CRUZ"
       /\ call.result.parsed.idNumber = "1234-5678-9012-3456"
       /\ \E i \in 1..12 :
            /\ call.arg \in {PhilSysText(MonthTitles[i] \o tail) :
                               tail \in {" 3, 1999", " 3 1999"}}
            /\ call.result.parsed.dob = "1999-" \o MonthNumbers[i] \o "-03"

\* C13: extractNationalIdNumber returns the empty string or a number written
\* ####-####-####-####; it returns 1234-5678-9012-3456 for that number with
\* O for 0, I or l for 1 and blanks around the dashes, the empty string when
\* the first group has five digits or the last group three or five, and its
\* own non-empty result unchanged.
C13_ExtractNationalIdNumberIsCanonical ==
  call.fn = "extractNationalIdNumber"
    => /\ call.result = "" \/ IsNationalIdForm(call.result)
       /\ \A p \in NatIdPrefixes, g1 \in NatIdFirstGroups, g3 \in NatIdThirdGroups,
             g4 \in NatIdLastGroups, sep \in NatIdSeparators :
            call.arg = NatIdText(p, g1, g3, g4, sep)
              => call.result = (IF Len(g1) = 4 /\ Len(g4) = 4
                                  THEN "1234-5678-9012-3456" ELSE "")
       /\ call.result # ""
            => Str(extractNationalIdNumber(Chars(call.result))) = call.result

C13_Witness ==
  /\ call.fn = "extractNationalIdNumber"
  /\ call.arg = "ID NO. I234 - 5678 - 9O12 - 3456"
  /\ call.result = "1234-5678-9012-3456"

\* s is written YYYY-MM-DD
IsCanonicalDateShape(s) ==
  /\ Len(s) = 10
  /\ \A i \in 1..10 : IF i \in {5, 8} THEN SubSeq(s, i, i) = "-"
                      ELSE SubSeq(s, i, i) \in Digits

\* C14: normalizeDate returns the empty string or a string written
\* YYYY-MM-DD.
C14_NormalizeDateIsCanonicalOrEmpty ==
  call.fn = "normalizeDate" => (call.result = "" \/ IsCanonicalDateShape(call.result))

\* the date texts that are in none of the forms normalizeDate accepts
UnparseableDates == {"1999-01-03", "1985/03/15", "", "1999", "Date of Birth"}

\* C15: normalizeDate, and extractDobFromText with it, returns the empty
\* string for a text in none of the accepted forms, a year-first date
\* included.
C15_NoBestGuessDate ==
  (call.fn \in {"normalizeDate", "extractDobFromText"} /\ call.arg \in UnparseableDates)
    => call.result = ""

\* C16: normalizeDate and pickBestDob return the canonical date for a date
\* written with the month's abbreviation, with or without period and comma.
C16_AbbreviatedMonthIsAccepted ==
  call.fn \in {"normalizeDate", "pickBestDob"}
    => \A i \in 1..12, dot \in {"", "."} :
         /\ call.arg \in {MonthAbbrevs[i] \o dot \o tail : tail \in {" 3, 1999", " 3 1999"}}
              => call.result = "1999-" \o MonthNumbers[i] \o "-03"
         /\ call.arg = MonthAbbrevs[i] \o dot \o " 12, 2001"
              => call.result = "2001-" \o MonthNumbers[i] \o "-12"

\* the multipass request has been answered with a selected pass
Selected == helper.stage = "answered" /\ helper.response[1].status = 200

\* C17: the answer of the multipass endpoint is one of the five pass
\* results, text, method and score together; no pass has a greater score
\* and every earlier pass has a smaller one.
C17_BestPassEarliestOnTies ==
  Selected
    => \E i \in 1..Len(helper.results) :
         /\ helper.results[i].method = Variants[i]
         /\ helper.response[1].extractedText = helper.results[i].text
         /\ helper.response[1].method = helper.results[i].method
         /\ helper.response[1].score = helper.results[i].score
         /\ \A j \in 1..Len(helper.results) :
              helper.results[j].score <= helper.results[i].score
         /\ \A j \in 1..(i - 1) : helper.results[j].score < helper.results[i].score

C17_Witness ==
  /\ Selected
  /\ helper.results[1].text = "A!@#1"
  /\ helper.results[2].text = "AB 12"
  /\ helper.results[3].text = ""
  /\ helper.results[4].text = "ABCD"
  /\ helper.results[5].text = "AB 12"
  /\ helper.response[1].method = "highContrast"
  /\ helper.response[1].extractedText = "AB 12"
  /\ helper.response[1].score = 4

\* C18: a variant on which the engine failed has the empty text and score 0;
\* all five variants are run whichever of them failed and the request is
\* answered with the best of the five; when all five failed the answer is
\* status 200 with the empty text and score 0.
C18_EngineFailureIsAbsorbedPerPass ==
  /\ \A i \in 1..Len(helper.results) :
       Variants[i] \in helper.failed
         => helper.results[i] = [text |-> "", method |-> Variants[i], score |-> 0]
  /\ (helper.stage = "answered" /\ helper.failed # {})
       => /\ Len(helper.results) = Len(Variants)
          /\ helper.response[1].status = 200
          /\ \A j \in 1..Len(helper.results) :
               helper.results[j].score <= helper.response[1].score
  /\ (helper.stage = "answered" /\ helper.failed = {Variants[i] : i \in 1..Len(Variants)})
       => /\ helper.response[1].extractedText = ""
          /\ helper.response[1].score = 0

C18_Witness ==
  /\ helper.stage = "answered"
  /\ helper.failed = {"standard", "highContrast", "inverted", "binarized", "adaptiveLocal"}
  /\ helper.response[1].status = 200
  /\ helper.response[1].extractedText = ""
  /\ helper.response[1].score = 0

\* the characters of a text that are letters or digits, and those that are
\* neither that nor a blank nor '-' nor '/'
AlnumAt(t) == {i \in 1..Len(t) : SubSeq(t, i, i) \in Letters \cup Digits}
NoiseAt(t) ==
  {i \in 1..Len(t) : SubSeq(t, i, i) \notin Letters \cup Digits \cup WS \cup {"-", "/"}}
ScoreOf(t) == scoreResult(Chars(t))

\* C19: scoreResult is the number of letters and digits less twice the
\* number of noise characters, and 0 for no text or the empty text; a noise
\* character in the place of a letter or digit lowers the score, a blank,
\* '-' or '/' put in anywhere leaves it as it is, and ABCD1234 scores more
\* than A!@#1.
C19_ScoreCountsAlnumLessTwiceNoise ==
  call.fn = "scoreResult"
    => IF call.arg = <<>> \/ call.arg = <<"">> THEN call.result = 0
       ELSE LET t == call.arg[1]
            IN /\ call.result = Cardinality(AlnumAt(t)) - 2 * Cardinality(NoiseAt(t))
               /\ \A i \in AlnumAt(t) :
                    ScoreOf(SubSeq(t, 1, i - 1) \o "!" \o SubSeq(t, i + 1, Len(t)))
                      < call.result
               /\ \A i \in 0..Len(t), c \in {" ", "-", "/"} :
                    ScoreOf(SubSeq(t, 1, i) \o c \o SubSeq(t, i + 1, Len(t))) = call.result
               /\ t = "ABCD1234" => call.result > ScoreOf("A!@#1")

C19_Witness ==
  /\ call.fn = "scoreResult"
  /\ call.arg = <<"A!@#1">>
  /\ call.result = -4

\* C20: cropFieldsFromCard returns a crop only for a key that has an ROI
\* with a crop rectangle of more than no area.
C20_ZeroAreaRoiIsSkipped ==
  call.fn = "cropFieldsFromCard"
    => \A k \in DOMAIN call.result :
         \E i \in 1..Len(call.arg[1]) :
           /\ call.arg[1][i].key = k
           /\ call.arg[1][i].sw * call.arg[1][i].sh > 0

\* the corners that a call of orderPoints was given
PointsOf(pts) == {pts[i] : i \in 1..Len(pts)}

\* C21: orderPoints gives the same four corners for every ordering of the
\* vertices it is given, and the four corners it gives are the four
\* vertices, each once.
C21_OrderPointsIgnoresInputOrder ==
  call.fn = "orderPoints"
    => /\ \A pts \in Orderings(PointsOf(call.arg)) : orderPoints(pts) = call.result
       /\ PointsOf(call.result) = PointsOf(call.arg)

\* an upright rectangle with corners (0,0), (w,0), (w,h), (0,h)
IsUprightRectangle(q, w, h) ==
  q = {Point(0, 0), Point(w, 0), Point(w, h), Point(0, h)}

\* C22: for an upright rectangle orderPoints gives top-left, top-right,
\* bottom-right, bottom-left, with y growing downwards: (0,0), (w,0), (w,h),
\* (0,h).
C22_OrderPointsIsTlTrBrBl ==
  call.fn = "orderPoints"
    => \A w, h \in 1..MaxCoord :
         IsUprightRectangle(PointsOf(call.arg), w, h)
           => call.result = <<Point(0, 0), Point(w, 0), Point(w, h), Point(0, h)>>

\* the grey levels that an image has pixels of
LevelsPresent(counts) == {l \in DOMAIN counts : counts[l] > 0}

\* an image of two populations: pixels of one value low near 0 and pixels of
\* one value high near 255
IsTwoPopulations(counts, low, high) ==
  /\ low \in {0, 1} /\ high \in {254, 255}
  /\ LevelsPresent(counts) = {low, high}

\* C23: calculateOtsuThreshold gives a level from 0 to 255, and for an image
\* of two populations, one of value low near 0 and one of value high near
\* 255, a level t with low < t < high.
C23_OtsuThresholdInRangeAndBetweenModes ==
  call.fn = "calculateOtsuThreshold"
    => /\ call.result \in 0..255
       /\ \A low, high \in PixelLevels :
            IsTwoPopulations(call.arg[1], low, high)
              => low < call.result /\ call.result < high

\* C24: every field that a parser called through parseTextByIdType reports
\* a confidence for has a confidence from 0.8 to 1.0 when the field is not
\* empty and from 0.2 to 0.4 when it is empty.
C24_ConfidenceIsHighOrLowByPresence ==
  call.fn = "parseTextByIdType"
    => \A field \in DOMAIN call.result.confidence :
         IF call.result[field] # "" THEN call.result.confidence[field] \in 80..100
         ELSE call.result.confidence[field] \in 20..40

\* C30: parseTextByIdType(text, T) gives a record of type T, and the merged
\* record of a scan with that whole-card record has type T.
C30_ParsingKeepsTheRequestedType ==
  call.fn = "parseTextByIdType"
    => /\ call.result.idType = call.arg[2]
       /\ MergedIdType(call.arg[2], call.result) = call.arg[2]

\* C25: getLineBelow gives the line after the first line that matches the
\* label asked for when that next line is not itself a label, whatever the value
\* is, and the empty string when the next line is a label or is missing.
C25_LabelAnchoredLookup ==
  call.fn = "getLineBelow"
    => LET lines == call.arg[1]
           at == {i \in 1..Len(lines) : Test(KeywordRegex[call.arg[2]], Chars(lines[i]))}
       IN IF at # {} /\ Min(at) + 1 <= Len(lines) /\ lines[Min(at) + 1] \notin LabelLines
            THEN call.result = lines[Min(at) + 1]
            ELSE call.result = ""

\* C26: a record that a scan has stored has a full name, a date of birth or
\* an ID number.
C26_StoredRecordIsNotAllEmpty ==
  (outcome = "stored" /\ extractedInfo # NoInfo)
    => \/ extractedInfo[1].fullName # ""
       \/ extractedInfo[1].dob # ""
       \/ extractedInfo[1].idNumber # ""

\* C27: from a press of Discard until the operator starts a scan or saves a
\* manual entry extractedInfo stays cleared, and manualData stays cleared
\* until the operator types into the manual form.
C27_DiscardedRecordStaysCleared ==
  /\ discarded # "no" => extractedInfo = NoInfo
  /\ discarded = "cleared" => manualData = EmptyManual

\* the stream that mediaStreamRef holds, if any
HeldStreams(c) == {c.mediaStreamRef[i] : i \in 1..Len(c.mediaStreamRef)}

\* C28: in every order of startCamera, stopCamera and the settling of
\* getUserMedia, the streams with tracks not stopped are the one stream that
\* mediaStreamRef holds, if it holds one; a getUserMedia that settles after
\* a later startCamera or stopCamera leaves mediaStreamRef, isActive and
\* error as they are and its stream is stopped; and after a stopCamera with
\* no startCamera since no stream is running.
C28_OnlyTheHeldStreamIsLive ==
  [][/\ cam'.live = HeldStreams(cam')
     /\ Cardinality(cam'.live) <= 1
     /\ \A r \in cam.requests \ cam'.requests :
          r # cam.startRequestId
            => /\ cam'.mediaStreamRef = cam.mediaStreamRef
               /\ cam'.isActive = cam.isActive
               /\ cam'.error = cam.error
               /\ r \notin cam'.live
     /\ call'.fn = "stopCamera" => cam'.live = {}]_vars

C28_Witness ==
  /\ call.fn = "startCamera"
  /\ call.result = "stale"
  /\ cam.requests = {}
  /\ cam.isActive
  /\ cam.live = {cam.startRequestId}
  /\ cam.mediaStreamRef = <<cam.startRequestId>>

\* C29: when the text of one of the five passes has a letter or a digit, the
\* text that the multipass endpoint answers with is not empty.
C29_TextBeatsFailedPass ==
  (Selected /\ \E i \in 1..Len(helper.results) :
                 \E k \in 1..Len(helper.results[i].text) :
                   SubSeq(helper.results[i].text, k, k) \in Letters \cup Digits)
    => helper.response[1].extractedText # ""
====
